---- MODULE Spec2Model ----
(***************************************************************************)
(* Classification and priority scoring of the email server: the rule      *)
(* classifier with its in-memory cache (package ai, Classifier), the six   *)
(* factor priority engine (package ai, PriorityEngine), the rule set      *)
(* (package config, PriorityConfig) and the SQLite store (package         *)
(* storage, Database).                                                     *)
(*                                                                         *)
(* Conventions.  A Go string is a sequence of byte codes, so that case     *)
(* folding, substring search and glob matching are computed as the code    *)
(* computes them; opaque labels that the code only compares or prints      *)
(* (identifiers, category names, field and operator names, descriptions)   *)
(* are TLA+ strings.  Time is counted in whole hours.  A float64           *)
(* confidence or decay rate is kept in hundredths (0.99 is 99).            *)
(* The product of applyTimeDecay is taken exactly and truncated; the       *)
(* rounding of the float64 product is not modelled.  A non-nil Database    *)
(* answers as its queries and schema.sql say; a nil one panics.            *)
(***************************************************************************)
EXTENDS Integers, Sequences, FiniteSets, TLC

VARIABLES
    cfg,            \* the PriorityConfig shared by classifier and engine
    facts,          \* what the pure functions of configuration and message give,
                    \* computed once: they never change during a run
    dbNil,          \* TRUE when classifier and engine were built with a nil *Database
    hasClassifier,  \* FALSE when the engine was built with a nil *Classifier
    now,            \* wall clock, hours
    cache,          \* Classifier.cache: cache key -> ClassificationResult
    classifications,\* table classifications: email id -> row
    priorities,     \* table priorities: email id -> row
    running,        \* Classify calls running in goroutines: goroutine -> call
    analytics,      \* table sender_analytics: address -> row
    ret             \* what the last call returned (or that it panicked)

vars == <<cfg, facts, priorities, running, dbNil, hasClassifier, now, cache, classifications, analytics, ret>>

None == [kind |-> "none"]

(***************************************************************************)
(* Strings                                                                 *)
(***************************************************************************)
SetMin(S) == CHOOSE x \in S : \A y \in S : x <= y

\* strings.ToLower / config.toLower on ASCII: 'A'..'Z' are moved up by 32
toLower(s) ==
    SubSeq([i \in 1..Len(s) |-> IF s[i] >= 65 /\ s[i] <= 90 THEN s[i] + 32 ELSE s[i]], 1, Len(s))

\* first index (from 0) where substr starts in s, or -1
indexOf(s, substr) ==
    LET hits == {i \in 0..(Len(s) - Len(substr)) : SubSeq(s, i + 1, i + Len(substr)) = substr}
    IN IF hits = {} THEN -1 ELSE SetMin(hits)

contains(s, substr) == Len(s) >= Len(substr) /\ indexOf(s, substr) >= 0

\* strings.Contains of the Go library
StringsContains(s, substr) == indexOf(s, substr) >= 0

containsIgnoreCase(s, substr) == StringsContains(toLower(s), toLower(substr))

containsAny(s, substrings) == \E i \in 1..Len(substrings) : StringsContains(s, substrings[i])

\* s[from:] of Go, from counted from 0
Tail0(s, from) == SubSeq(s, from + 1, Len(s))

ExtractDomain(email) ==
    LET atIdx == indexOf(email, <<64>> (* "@" *))
    IN IF atIdx = -1 THEN <<>> ELSE Tail0(email, atIdx + 1)

\* the non-empty runs between the '*' of a pattern, in order
RECURSIVE PatternParts(_, _, _, _)
PatternParts(pattern, i, current, parts) ==
    IF i > Len(pattern)
    THEN IF current # <<>> THEN Append(parts, current) ELSE parts
    ELSE IF pattern[i] = 42
         THEN PatternParts(pattern, i + 1, <<>>,
                           IF current # <<>> THEN Append(parts, current) ELSE parts)
         ELSE PatternParts(pattern, i + 1, Append(current, pattern[i]), parts)

\* the loop that looks for every part in order, each after the end of the one before
RECURSIVE PartsInOrder(_, _, _, _)
PartsInOrder(s, parts, k, pos) ==
    IF k > Len(parts) THEN TRUE
    ELSE LET idx == indexOf(Tail0(s, pos), parts[k])
         IN IF idx = -1 THEN FALSE
            ELSE PartsInOrder(s, parts, k + 1, pos + idx + Len(parts[k]))

matchPattern(s, pattern) ==
    IF pattern = <<42>> (* "*" *) THEN TRUE
    ELSE IF indexOf(pattern, <<42>> (* "*" *)) = -1 THEN s = pattern
    ELSE IF Len(pattern) > 0 /\ pattern[1] = 42
         THEN LET suffix == Tail0(pattern, 1)
              IN Len(s) >= Len(suffix) /\ Tail0(s, Len(s) - Len(suffix)) = suffix
    ELSE IF Len(pattern) > 0 /\ pattern[Len(pattern)] = 42
         THEN LET prefix == SubSeq(pattern, 1, Len(pattern) - 1)
              IN Len(s) >= Len(prefix) /\ SubSeq(s, 1, Len(prefix)) = prefix
    ELSE PartsInOrder(s, PatternParts(pattern, 1, <<>>, <<>>), 1, 0)

(***************************************************************************)
(* regexp of the Go library, for the patterns the rule sets below use: an  *)
(* optional leading ^, an optional trailing $, and between them literal    *)
(* bytes and '.', which stands for any byte but a newline.  A pattern with *)
(* an unclosed '(' or '[' does not compile.                                *)
(***************************************************************************)
Count(s, b) == Cardinality({i \in 1..Len(s) : s[i] = b})

RegexCompiles(p) == Count(p, 40) = Count(p, 41) /\ Count(p, 91) = Count(p, 93)

RegexMatchString(p, s) ==
    LET anchoredL == Len(p) > 0 /\ p[1] = 94
        anchoredR == Len(p) > 0 /\ p[Len(p)] = 36
        body == SubSeq(p, IF anchoredL THEN 2 ELSE 1, IF anchoredR THEN Len(p) - 1 ELSE Len(p))
        At(i) == \A j \in 1..Len(body) :
                    IF body[j] = 46 THEN s[i + j] # 10 ELSE s[i + j] = body[j]
    IN \E i \in 0..(Len(s) - Len(body)) :
          /\ anchoredL => i = 0
          /\ anchoredR => i = Len(s) - Len(body)
          /\ At(i)

(***************************************************************************)
(* config.PriorityConfig                                                   *)
(***************************************************************************)
\* the orders in which a range over a Go map with key set S may visit it
Orders(S) == {o \in [1..Cardinality(S) -> S] : \A i, j \in DOMAIN o : i # j => o[i] # o[j]}

InSeq(x, list) == \E i \in 1..Len(list) : list[i] = x

IsVIPSender(c, email) == InSeq(email, c.VIPSenders)

IsImportantDomain(c, domain) == InSeq(domain, c.ImportantDomains)

\* a faulty variant: the text and the keyword are compared as written
HasUrgentKeywordCaseSensitive(c, text) ==
    LET hits == {i \in 1..Len(c.UrgentKeywords) : contains(text, c.UrgentKeywords[i])}
    IN IF hits = {} THEN <<FALSE, <<>>>> ELSE <<TRUE, c.UrgentKeywords[SetMin(hits)]>>

\* <<found, keyword>>: the first urgent keyword of the list that occurs in text
HasUrgentKeyword(c, text) ==
    LET textLower == toLower(text)
        hits == {i \in 1..Len(c.UrgentKeywords) : contains(textLower, toLower(c.UrgentKeywords[i]))}
    IN IF hits = {} THEN <<FALSE, <<>>>> ELSE <<TRUE, c.UrgentKeywords[SetMin(hits)]>>

\* a faulty variant: the ignore list is not consulted
ShouldIgnoreSenderNever(c, email) == FALSE

ShouldIgnoreSender(c, email) ==
    LET emailLower == toLower(email)
    IN \E i \in 1..Len(c.IgnoreSenders) : matchPattern(emailLower, toLower(c.IgnoreSenders[i]))

ShouldIgnoreSubject(c, subject) ==
    LET subjectLower == toLower(subject)
    IN \E i \in 1..Len(c.IgnoreSubjects) : contains(subjectLower, toLower(c.IgnoreSubjects[i]))

GetCategoryPriority(c, category) ==
    IF category \in DOMAIN c.CategoryPriority THEN c.CategoryPriority[category] ELSE 0

ValidFields == {"from", "subject", "body", "headers", "to"}

ValidOperators == {"contains", "contains_any", "regex", "domain_in", "domain_not_in"}

ConditionValidate(cond) ==
    /\ cond.Field \in ValidFields
    /\ cond.Operator \in ValidOperators
    /\ (cond.Operator = "regex" /\ cond.Value # <<>>) => RegexCompiles(cond.Value)

\* TRUE when the loader accepts the configuration
Validate(c) ==
    /\ \A cat \in DOMAIN c.CategoryPriority :
          c.CategoryPriority[cat] >= -100 /\ c.CategoryPriority[cat] <= 100
    /\ \A name \in DOMAIN c.ClassificationRules :
          LET rule == c.ClassificationRules[name]
          IN /\ rule.Confidence >= 0 /\ rule.Confidence <= 100
             /\ \A i \in 1..Len(rule.Conditions) : ConditionValidate(rule.Conditions[i])

(***************************************************************************)
(* The configurations, the messages and the rows the model runs on         *)
(***************************************************************************)
NoValues == <<>>

\* a rule set as the example configuration has it, accepted by the loader
CfgExample ==
    [VIPSenders |-> << <<98, 111, 115, 115, 64, 120, 46, 99, 111>> (* "boss@x.co" *) >>,
     ImportantDomains |-> << <<120, 46, 99, 111>> (* "x.co" *) >>,
     UrgentKeywords |-> << <<117, 114, 103, 101, 110, 116>> (* "urgent" *), <<97, 115, 97, 112>> (* "asap" *) >>,
     IgnoreSenders |-> << <<42, 64, 115, 112, 97, 109, 46, 105, 111>> (* "*@spam.io" *) >>,
     IgnoreSubjects |-> << <<117, 110, 115, 117, 98>> (* "unsub" *) >>,
     CategoryPriority |-> [work |-> 20, invoice |-> 10, promotions |-> -10, spam |-> -100,
                           urgent |-> 100],
     TimeDecay |-> [Enabled |-> TRUE, MaxAgeHours |-> 24, DecayRate |-> 25],
     ClassificationRules |->
        [work |-> [Description |-> "Work mail",
                   Conditions |-> << [Field |-> "from", Operator |-> "domain_in",
                                      Value |-> <<>>, Values |-> << <<120, 46, 99, 111>> (* "x.co" *) >>] >>,
                   PriorityBoost |-> 10, Confidence |-> 90, Tags |-> <<"work">>],
         invoice |-> [Description |-> "Invoices",
                      Conditions |-> << [Field |-> "subject", Operator |-> "contains_any",
                                         Value |-> <<>>,
                                         Values |-> << <<105, 110, 118, 111, 105, 99, 101>> (* "invoice" *), <<98, 105, 108, 108>> (* "bill" *) >>] >>,
                      PriorityBoost |-> 5, Confidence |-> 90, Tags |-> <<"finance", "billing">>],
         urgent |-> [Description |-> "Urgent subject",
                     Conditions |-> << [Field |-> "subject", Operator |-> "regex",
                                        Value |-> <<94, 85, 82, 71, 69, 78, 84>> (* "^URGENT" *), Values |-> NoValues] >>,
                     PriorityBoost |-> 20, Confidence |-> 95, Tags |-> <<>>],
         zero |-> [Description |-> "No confidence",
                   Conditions |-> << [Field |-> "subject", Operator |-> "contains",
                                      Value |-> <<72, 69, 76, 76, 79>> (* "HELLO" *), Values |-> NoValues] >>,
                   PriorityBoost |-> 0, Confidence |-> 0, Tags |-> <<"zero">>]]]

\* a rule set built in code, not through the loader (Validate rejects it): a
\* pattern that does not compile, an unknown field, an unknown operator
CfgEdge ==
    [VIPSenders |-> << <<118, 105, 112, 64, 115, 112, 97, 109, 46, 105, 111>> (* "vip@spam.io" *) >>,
     ImportantDomains |-> << <<115, 104, 111, 112, 46, 105, 111>> (* "shop.io" *) >>,
     UrgentKeywords |-> << <<65, 83, 65, 80>> (* "ASAP" *) >>,
     IgnoreSenders |-> << <<97, 100, 115, 42>> (* "ads*" *), <<42, 64, 83, 80, 65, 77, 46, 105, 111>> (* "*@SPAM.io" *), <<112, 42, 64, 42, 46, 100, 101>> (* "p*@*.de" *) >>,
     IgnoreSubjects |-> << <<85, 110, 115, 117, 98>> (* "Unsub" *) >>,
     CategoryPriority |-> [personal |-> 100, newsletters |-> -5, invoice |-> 15],
     TimeDecay |-> [Enabled |-> FALSE, MaxAgeHours |-> 72, DecayRate |-> 10],
     ClassificationRules |->
        [broken |-> [Description |-> "Bad pattern",
                     Conditions |-> << [Field |-> "subject", Operator |-> "regex",
                                        Value |-> <<40, 104, 101, 108, 108, 111>> (* "(hello" *), Values |-> NoValues] >>,
                     PriorityBoost |-> 0, Confidence |-> 100, Tags |-> <<"x">>],
         odd |-> [Description |-> "Unknown field",
                  Conditions |-> << [Field |-> "cc", Operator |-> "contains",
                                     Value |-> <<>>, Values |-> NoValues] >>,
                  PriorityBoost |-> 0, Confidence |-> 100, Tags |-> <<"x">>],
         weird |-> [Description |-> "Unknown operator",
                    Conditions |-> << [Field |-> "from", Operator |-> "equals",
                                       Value |-> <<97, 108, 64, 121, 46, 111, 114, 103>> (* "al@y.org" *), Values |-> NoValues] >>,
                    PriorityBoost |-> 0, Confidence |-> 100, Tags |-> <<"x">>]]]

\* no VIP, no ignore list, a decay rate below zero (Validate does not look at
\* it); rules on recipient, body and headers
CfgPlain ==
    [VIPSenders |-> <<>>,
     ImportantDomains |-> <<>>,
     UrgentKeywords |-> << <<117, 114, 103, 101, 110, 116>> (* "urgent" *) >>,
     IgnoreSenders |-> <<>>,
     IgnoreSubjects |-> <<>>,
     CategoryPriority |-> [lists |-> 3],
     TimeDecay |-> [Enabled |-> TRUE, MaxAgeHours |-> 0, DecayRate |-> -25],
     ClassificationRules |->
        [lists |-> [Description |-> "Mailing list",
                    Conditions |-> << [Field |-> "headers", Operator |-> "contains",
                                       Value |-> <<49, 10, 98>> (* "1\nb" *), Values |-> NoValues] >>,
                    PriorityBoost |-> 0, Confidence |-> 60, Tags |-> <<"list">>],
         outside |-> [Description |-> "Outside payment",
                      Conditions |-> << [Field |-> "from", Operator |-> "domain_not_in",
                                         Value |-> <<>>, Values |-> << <<120, 46, 99, 111>> (* "x.co" *) >>],
                                        [Field |-> "body", Operator |-> "contains",
                                         Value |-> <<80, 97, 121>> (* "Pay" *), Values |-> NoValues] >>,
                      PriorityBoost |-> 0, Confidence |-> 60, Tags |-> <<"pay">>],
         tome |-> [Description |-> "Addressed to me",
                   Conditions |-> << [Field |-> "to", Operator |-> "contains",
                                      Value |-> <<109, 101, 64>> (* "me@" *), Values |-> NoValues] >>,
                   PriorityBoost |-> 0, Confidence |-> 40, Tags |-> <<"me">>]]]

Configs == {CfgExample, CfgEdge, CfgPlain}

NoHeaders == <<>>

StartHour == 100

Mail(id, from, to, subject, body, headers, receivedAt) ==
    [ID |-> id, From |-> from, To |-> to, Subject |-> subject, BodySnippet |-> body,
     Headers |-> headers, ReceivedAt |-> receivedAt]

ListHeaders == [k \in { <<97>> (* "a" *), <<98>> (* "b" *) } |-> IF k = <<97>> (* "a" *) THEN <<49>> (* "1" *) ELSE <<50>> (* "2" *)]

\* the messages of the stateful specification
Emails ==
    { Mail("e1", <<98, 111, 115, 115, 64, 120, 46, 99, 111>> (* "boss@x.co" *), <<109, 101, 64, 120, 46, 99, 111>> (* "me@x.co" *), <<85, 82, 71, 69, 78, 84, 58, 32, 98, 105, 108, 108>> (* "URGENT: bill" *), <<>>, NoHeaders, 100),
      Mail("e2", <<112, 114, 111, 109, 111, 64, 115, 112, 97, 109, 46, 105, 111>> (* "promo@spam.io" *), <<>>, <<115, 97, 108, 101, 32, 117, 110, 115, 117, 98, 32, 98, 105, 108, 108>> (* "sale unsub bill" *), <<100, 101, 97, 100, 108, 105, 110, 101>> (* "deadline" *), NoHeaders, 76),
      Mail("e3", <<110, 111, 114, 101, 112, 108, 121, 64, 115, 104, 111, 112, 46, 105, 111>> (* "noreply@shop.io" *), <<>>, <<68, 105, 103, 101, 115, 116, 32, 100, 101, 97, 108>> (* "Digest deal" *), <<>>, NoHeaders, 94),
      Mail("e4", <<97, 108, 64, 121, 46, 111, 114, 103>> (* "al@y.org" *), <<>>, <<82, 101, 58, 32, 104, 101, 108, 108, 111>> (* "Re: hello" *), <<112, 97, 121, 32, 97, 115, 97, 112>> (* "pay asap" *), ListHeaders, 28),
      Mail("e5", <<97, 108, 64, 121, 46, 111, 114, 103>> (* "al@y.org" *), <<109, 101, 64, 120, 46, 99, 111>> (* "me@x.co" *), <<82, 101, 58, 32, 104, 101, 108, 108, 111>> (* "Re: hello" *), <<>>, NoHeaders, 28) }

EmailIDs == {e.ID : e \in Emails}

ScoreSenders == { <<98, 111, 115, 115, 64, 120, 46, 99, 111>> (* "boss@x.co" *), <<66, 111, 115, 115, 64, 120, 46, 99, 111>> (* "Boss@x.co" *), <<97, 108, 64, 121, 46, 111, 114, 103>> (* "al@y.org" *), <<118, 105, 112, 64, 115, 112, 97, 109, 46, 105, 111>> (* "vip@spam.io" *), <<110, 111, 98, 111, 100, 121>> (* "nobody" *) }

\* <<subject, body snippet>>
ScoreTexts ==
    { << <<85, 82, 71, 69, 78, 84, 58, 32, 98, 105, 108, 108>> (* "URGENT: bill" *), <<>> >>,
      << <<82, 101, 58, 32, 104, 101, 108, 108, 111>> (* "Re: hello" *), <<97, 115, 97, 112, 32, 112, 108, 115>> (* "asap pls" *) >>,
      << <<104, 101, 108, 108, 111>> (* "hello" *), <<68, 117, 101, 32, 68, 97, 116, 101>> (* "Due Date" *) >>,
      << <<70, 119, 100, 58, 32, 115, 97, 108, 101, 32, 117, 110, 115, 117, 98>> (* "Fwd: sale unsub" *), <<>> >> }

ScoreReceived == {100, 99, 94, 76, 28, 0}

\* the messages of the scoring specification
ScoreEmails ==
    { Mail("s1", from, <<>>, text[1], text[2], NoHeaders, at) :
        from \in ScoreSenders, text \in ScoreTexts, at \in ScoreReceived }

FeedbackCategories == {"work", "spam"}

MaxListed == 2

\* the messages of an account as ListEmails returns them: the Email built
\* from a row has no headers
ListedEmails == {[e EXCEPT !.Headers = NoHeaders] : e \in {m \in Emails : m.ID \in {"e1", "e5"}}}

\* the lists ListEmails can return: no identifier twice (it is the primary key)
Listings ==
    {l \in UNION {[1..n -> ListedEmails] : n \in 0..MaxListed} :
        \A i, j \in 1..Len(l) : i # j => l[i].ID # l[j].ID}

MaxBatch == 2

\* the messages batches are made of: an ignored sender and two messages that
\* differ in identifier and recipient only
BatchEmails == {e \in Emails : e.ID \in {"e2", "e4", "e5"}}

\* the slices ClassifyBatch is called with
Batches == UNION {[1..n -> BatchEmails] : n \in 0..MaxBatch}

MaxCount == 1

EngagementScores == {0, 7, 100}

\* rows the sender_analytics table can hold: the schema keeps engagement_score in 0..100
AnalyticsRows ==
    [TotalEmails : 0..MaxCount, ReadCount : 0..MaxCount, ReplyCount : 0..MaxCount,
     EngagementScore : EngagementScores, IsVIP : BOOLEAN]

\* the rows the aggregation writes in the stateful specification
MainRows ==
    { [TotalEmails |-> 1, ReadCount |-> 1, ReplyCount |-> MaxCount, EngagementScore |-> 100,
       IsVIP |-> FALSE] }

MainSenders == { <<97, 108, 64, 121, 46, 111, 114, 103>> (* "al@y.org" *), <<98, 111, 115, 115, 64, 120, 46, 99, 111>> (* "boss@x.co" *) }

(***************************************************************************)
(* ai.Classifier                                                           *)
(***************************************************************************)
\* time.Time.Format(time.RFC3339): a fixed-width rendering, here of the hour count
FormatRFC3339(t) == <<48 + ((t \div 100) % 10), 48 + ((t \div 10) % 10), 48 + (t % 10)>>

\* the text whose MD5 digest is the cache key
getCacheKey(email) ==
    email.From \o <<58>> (* ":" *) \o email.Subject \o <<58>> (* ":" *) \o FormatRFC3339(email.ReceivedAt)

RECURSIVE JoinHeaders(_, _, _)
JoinHeaders(email, order, i) ==
    IF i > Len(order) THEN <<>>
    ELSE (IF i > 1 THEN <<10>> (* "\n" *) ELSE <<>>)
         \o order[i] \o <<58, 32>> (* ": " *) \o email.Headers[order[i]]
         \o JoinHeaders(email, order, i + 1)

\* hdrOrder: the order in which the range over email.Headers visits the keys
getAllHeaders(email, hdrOrder) == JoinHeaders(email, hdrOrder, 1)

\* a faulty variant: a condition with an unknown operator counts as met
matchesConditionUnknownMet(email, cond, hdrOrder) ==
    cond.Operator \notin {"contains", "contains_any", "regex", "domain_in", "domain_not_in"}

matchesCondition(email, cond, hdrOrder) ==
    IF cond.Field \notin {"from", "to", "subject", "body", "headers"} THEN FALSE
    ELSE LET fieldValue ==
                 CASE cond.Field = "from" -> email.From
                   [] cond.Field = "to" -> email.To
                   [] cond.Field = "subject" -> email.Subject
                   [] cond.Field = "body" -> email.BodySnippet
                   [] cond.Field = "headers" -> getAllHeaders(email, hdrOrder)
         IN CASE cond.Operator = "contains" -> containsIgnoreCase(fieldValue, cond.Value)
              [] cond.Operator = "contains_any" ->
                    \E i \in 1..Len(cond.Values) : containsIgnoreCase(fieldValue, cond.Values[i])
              [] cond.Operator = "regex" ->
                    RegexCompiles(cond.Value) /\ RegexMatchString(cond.Value, fieldValue)
              [] cond.Operator = "domain_in" ->
                    InSeq(ExtractDomain(fieldValue), cond.Values)
              [] cond.Operator = "domain_not_in" ->
                    ~InSeq(ExtractDomain(fieldValue), cond.Values)
              [] OTHER -> FALSE

matchesRule(email, rule, hdrOrder) ==
    \A i \in 1..Len(rule.Conditions) : matchesCondition(email, rule.Conditions[i], hdrOrder)

AutomatedSenders == <<<<110, 111, 114, 101, 112, 108, 121, 64>> (* "noreply@" *), <<110, 111, 45, 114, 101, 112, 108, 121, 64>> (* "no-reply@" *), <<110, 111, 116, 105, 102, 105, 99, 97, 116, 105, 111, 110, 115, 64>> (* "notifications@" *)>>
NewsletterWords == <<<<110, 101, 119, 115, 108, 101, 116, 116, 101, 114>> (* "newsletter" *), <<115, 117, 98, 115, 99, 114, 105, 112, 116, 105, 111, 110>> (* "subscription" *), <<100, 105, 103, 101, 115, 116>> (* "digest" *)>>
PromotionWords == <<<<115, 97, 108, 101>> (* "sale" *), <<111, 102, 102, 101, 114>> (* "offer" *), <<100, 105, 115, 99, 111, 117, 110, 116>> (* "discount" *), <<37, 32, 111, 102, 102>> (* "% off" *), <<100, 101, 97, 108>> (* "deal" *)>>
InvoiceWords == <<<<105, 110, 118, 111, 105, 99, 101>> (* "invoice" *), <<112, 97, 121, 109, 101, 110, 116>> (* "payment" *), <<114, 101, 99, 101, 105, 112, 116>> (* "receipt" *), <<98, 105, 108, 108>> (* "bill" *)>>
UrgentWords == <<<<117, 114, 103, 101, 110, 116>> (* "urgent" *), <<97, 115, 97, 112>> (* "asap" *), <<105, 109, 112, 111, 114, 116, 97, 110, 116>> (* "important" *), <<99, 114, 105, 116, 105, 99, 97, 108>> (* "critical" *)>>

\* a faulty variant: the urgent words are looked for first
defaultHeuristicUrgentFirst(email) ==
    IF containsAny(toLower(email.Subject), UrgentWords)
    THEN <<"urgent", "Urgent keywords detected", 90>>
    ELSE IF containsAny(toLower(email.From), AutomatedSenders)
    THEN <<"newsletters", "Automated sender detected", 70>>
    ELSE <<"personal", "Default classification - no specific rules matched", 50>>

\* the if / else-if chain of defaultClassification: <<category, reasoning, confidence>>
defaultHeuristic(email) ==
    LET subjectLower == toLower(email.Subject)
        fromLower == toLower(email.From)
    IN IF containsAny(fromLower, AutomatedSenders)
       THEN <<"newsletters", "Automated sender detected", 70>>
       ELSE IF containsAny(subjectLower, NewsletterWords)
       THEN <<"newsletters", "Newsletter keywords in subject", 75>>
       ELSE IF containsAny(subjectLower, PromotionWords)
       THEN <<"promotions", "Promotional keywords detected", 80>>
       ELSE IF containsAny(subjectLower, InvoiceWords)
       THEN <<"invoice", "Financial keywords detected", 85>>
       ELSE IF containsAny(subjectLower, UrgentWords)
       THEN <<"urgent", "Urgent keywords detected", 90>>
       ELSE <<"personal", "Default classification - no specific rules matched", 50>>

defaultClassification(email, t) ==
    LET pick == facts.of[email].heuristic
    IN [EmailID |-> email.ID, Category |-> pick[1], Confidence |-> pick[3],
        Method |-> "rules", Tags |-> <<"default", "heuristic">>,
        Reasoning |-> pick[2], Timestamp |-> t]

\* the categories whose rule the message matches (matchesRule is a pure
\* function of the message once the header order is fixed)
MatchingRules(c, email, hdrOrder) ==
    {category \in DOMAIN c.ClassificationRules :
        matchesRule(email, c.ClassificationRules[category], hdrOrder)}

\* the range over the rule map, visiting the categories in ruleOrder;
\* matching: the categories whose rule matches the message
RECURSIVE RuleLoop(_, _, _, _, _, _, _)
RuleLoop(c, email, matching, ruleOrder, t, i, best) ==
    IF i > Len(ruleOrder) THEN best
    ELSE LET category == ruleOrder[i]
             rule == c.ClassificationRules[category]
             highestConfidence == IF best = None THEN 0 ELSE best.Confidence
         IN IF category \in matching /\ rule.Confidence > highestConfidence
            THEN RuleLoop(c, email, matching, ruleOrder, t, i + 1,
                          [EmailID |-> email.ID, Category |-> category,
                           Confidence |-> rule.Confidence, Method |-> "rules",
                           Tags |-> rule.Tags,
                           Reasoning |-> "Matched rule: " \o rule.Description,
                           Timestamp |-> t])
            ELSE RuleLoop(c, email, matching, ruleOrder, t, i + 1, best)

classifyByRules(c, email, hdrOrder, ruleOrder, t) ==
    LET bestMatch == RuleLoop(c, email, facts.of[email].matching[hdrOrder], ruleOrder, t, 1, None)
    IN IF bestMatch = None THEN defaultClassification(email, t) ELSE bestMatch

CacheTTL == 24

ClassifyCallInclusive(c, ch, email, hdrOrder, ruleOrder, t) ==
    LET cacheKey == facts.of[email].cacheKey
        result == classifyByRules(c, email, hdrOrder, ruleOrder, t)
    IN IF cacheKey \in DOMAIN ch /\ t - ch[cacheKey].Timestamp <= CacheTTL
       THEN [result |-> ch[cacheKey], cache |-> ch]
       ELSE [result |-> result,
             cache |-> [k \in DOMAIN ch \cup {cacheKey} |->
                           IF k = cacheKey THEN result ELSE ch[k]]]

ClassifyCallNoStore(c, ch, email, hdrOrder, ruleOrder, t) ==
    LET cacheKey == facts.of[email].cacheKey
    IN IF cacheKey \in DOMAIN ch /\ t - ch[cacheKey].Timestamp < CacheTTL
       THEN [result |-> ch[cacheKey], cache |-> ch]
       ELSE [result |-> classifyByRules(c, email, hdrOrder, ruleOrder, t), cache |-> ch]

\* Classify on the cache ch at time t: the result and the cache it leaves
ClassifyCall(c, ch, email, hdrOrder, ruleOrder, t) ==
    LET cacheKey == facts.of[email].cacheKey
    IN IF cacheKey \in DOMAIN ch /\ t - ch[cacheKey].Timestamp < CacheTTL
       THEN [result |-> ch[cacheKey], cache |-> ch]
       ELSE IF facts.of[email].ignoreSender
       THEN [result |-> [EmailID |-> email.ID, Category |-> "spam", Confidence |-> 99,
                         Method |-> "rules", Tags |-> <<"ignored", "auto">>,
                         Reasoning |-> "Sender is in ignore list", Timestamp |-> t],
             cache |-> ch]
       ELSE IF facts.of[email].ignoreSubject
       THEN [result |-> [EmailID |-> email.ID, Category |-> "newsletters", Confidence |-> 95,
                         Method |-> "rules", Tags |-> <<"ignored", "auto">>,
                         Reasoning |-> "Subject matches ignore pattern", Timestamp |-> t],
             cache |-> ch]
       ELSE LET result == classifyByRules(c, email, hdrOrder, ruleOrder, t)
            IN [result |-> result,
                cache |-> [k \in DOMAIN ch \cup {cacheKey} |->
                              IF k = cacheKey THEN result ELSE ch[k]]]

(***************************************************************************)
(* storage.Database.  A nil *Database makes every method panic on its      *)
(* first statement (the lock of a nil receiver); db is then None.          *)
(* Otherwise db holds the two tables the calls below read.                 *)
(***************************************************************************)
Panic == [kind |-> "panic"]

\* GetSenderAnalytics: the row of the address, or None when sql.ErrNoRows
\* a faulty variant: no row is ever found
GetSenderAnalyticsNotFound(db, emailAddress) == None

GetSenderAnalytics(db, emailAddress) ==
    IF emailAddress \in DOMAIN db.analytics THEN db.analytics[emailAddress] ELSE None

\* Database.GetClassification then Classifier.GetClassification: the tags
\* are not parsed back, the timestamp is the row's classified_at
GetClassification(db, emailID) ==
    IF emailID \in DOMAIN db.classifications
    THEN LET row == db.classifications[emailID]
         IN [EmailID |-> emailID, Category |-> row.Category, Confidence |-> row.Confidence,
             Method |-> row.Method, Tags |-> <<>>, Reasoning |-> row.Reasoning,
             Timestamp |-> row.ClassifiedAt]
    ELSE None

(***************************************************************************)
(* ai.PriorityEngine                                                       *)
(***************************************************************************)
\* integer division of Go: the quotient is truncated toward zero
GoDiv(a, b) == IF a >= 0 THEN a \div b ELSE -((-a) \div b)

\* a faulty variant: the important domain is looked at before the VIP list
calculateSenderScoreDomainFirst(c, db, email) ==
    IF IsImportantDomain(c, ExtractDomain(email.From))
    THEN [score |-> 20, reasoning |-> << <<"Important domain: %s (+20)">> >>]
    ELSE IF IsVIPSender(c, email.From)
    THEN [score |-> 30, reasoning |-> << <<"VIP sender (+30)">> >>]
    ELSE IF db = None THEN Panic
    ELSE [score |-> 0, reasoning |-> << <<"Unknown sender (+0)">> >>]

calculateSenderScoreLearnedMax(c, db, email) ==
    IF IsVIPSender(c, email.From)
    THEN [score |-> 30, reasoning |-> << <<"VIP sender (+30)">> >>]
    ELSE IF IsImportantDomain(c, ExtractDomain(email.From))
    THEN [score |-> 20, reasoning |-> << <<"Important domain: %s (+20)",
                                          ExtractDomain(email.From)>> >>]
    ELSE IF db = None THEN Panic
    ELSE IF GetSenderAnalytics(db, email.From) # None
            /\ GetSenderAnalytics(db, email.From).IsVIP
    THEN [score |-> 30, reasoning |-> << <<"Learned VIP sender (+25)">> >>]
    ELSE [score |-> 0, reasoning |-> << <<"Unknown sender (+0)">> >>]

calculateSenderScore(c, db, email) ==
    IF IsVIPSender(c, email.From)
    THEN [score |-> 30, reasoning |-> << <<"VIP sender (+30)">> >>]
    ELSE LET domain == ExtractDomain(email.From)
         IN IF IsImportantDomain(c, domain)
            THEN [score |-> 20, reasoning |-> << <<"Important domain: %s (+20)", domain>> >>]
            ELSE IF db = None THEN Panic
            ELSE LET a == GetSenderAnalytics(db, email.From)
                     engagementBonus == IF a = None THEN 0 ELSE GoDiv(a.EngagementScore * 15, 100)
                     score == IF a = None THEN 0
                              ELSE IF a.IsVIP THEN 25
                              ELSE IF engagementBonus > 0 THEN engagementBonus ELSE 0
                     said == IF a = None THEN <<>>
                             ELSE IF a.IsVIP THEN << <<"Learned VIP sender (+25)">> >>
                             ELSE IF engagementBonus > 0
                                  THEN << <<"Engagement score: %d (+%d)", a.EngagementScore,
                                            engagementBonus>> >>
                                  ELSE <<>>
                 IN [score |-> score,
                     reasoning |-> IF score = 0 THEN Append(said, <<"Unknown sender (+0)">>)
                                   ELSE said]

ActionKeywords ==
    <<<<97, 99, 116, 105, 111, 110, 32, 114, 101, 113, 117, 105, 114, 101, 100>> (* "action required" *), <<112, 108, 101, 97, 115, 101, 32, 114, 101, 115, 112, 111, 110, 100>> (* "please respond" *), <<114, 101, 115, 112, 111, 110, 115, 101, 32, 110, 101, 101, 100, 101, 100>> (* "response needed" *), <<100, 101, 97, 100, 108, 105, 110, 101>> (* "deadline" *), <<100, 117, 101, 32, 100, 97, 116, 101>> (* "due date" *)>>

calculateKeywordScore(c, email) ==
    LET inSubject == HasUrgentKeyword(c, email.Subject)
        inBody == HasUrgentKeyword(c, email.BodySnippet)
        hits == {i \in 1..Len(ActionKeywords) :
                    \/ containsIgnoreCase(email.Subject, ActionKeywords[i])
                    \/ containsIgnoreCase(email.BodySnippet, ActionKeywords[i])}
    IN IF inSubject[1]
       THEN [score |-> 20,
             reasoning |-> << <<"Urgent keyword in subject: '%s' (+20)", inSubject[2]>> >>]
       ELSE IF inBody[1]
       THEN [score |-> 15,
             reasoning |-> << <<"Urgent keyword in body: '%s' (+15)", inBody[2]>> >>]
       ELSE IF hits # {}
       THEN [score |-> 10,
             reasoning |-> << <<"Action keyword: '%s' (+10)", ActionKeywords[SetMin(hits)]>> >>]
       ELSE [score |-> 0, reasoning |-> << <<"No urgent keywords (+0)">> >>]

calculateTemporalScoreInclusive(email, t) ==
    LET age == t - email.ReceivedAt
    IN IF age <= 1 THEN [score |-> 15, reasoning |-> << <<"Very recent: <1 hour (+15)">> >>]
       ELSE IF age <= 6 THEN [score |-> 10, reasoning |-> << <<"Recent: <6 hours (+10)">> >>]
       ELSE IF age <= 24 THEN [score |-> 5, reasoning |-> << <<"Today (+5)">> >>]
       ELSE IF age <= 3 * 24 THEN [score |-> 2, reasoning |-> << <<"Last 3 days (+2)">> >>]
       ELSE [score |-> 0, reasoning |-> << <<"Old: %d days (+0)", GoDiv(age, 24)>> >>]

calculateTemporalScore(email, t) ==
    LET age == t - email.ReceivedAt
    IN IF age < 1 THEN [score |-> 15, reasoning |-> << <<"Very recent: <1 hour (+15)">> >>]
       ELSE IF age < 6 THEN [score |-> 10, reasoning |-> << <<"Recent: <6 hours (+10)">> >>]
       ELSE IF age < 24 THEN [score |-> 5, reasoning |-> << <<"Today (+5)">> >>]
       ELSE IF age < 3 * 24 THEN [score |-> 2, reasoning |-> << <<"Last 3 days (+2)">> >>]
       ELSE [score |-> 0, reasoning |-> << <<"Old: %d days (+0)", GoDiv(age, 24)>> >>]

\* a faulty variant: a negative category priority is not raised to 0
calculateCategoryScoreNoFloor(c, db, ch, attached, email, hdrOrder, ruleOrder, t) ==
    IF attached /\ db = None THEN Panic
    ELSE LET saved == IF attached THEN GetClassification(db, email.ID) ELSE None
             call == ClassifyCall(c, ch, email, hdrOrder, ruleOrder, t)
             classification == IF ~attached THEN None
                               ELSE IF saved # None THEN saved ELSE call.result
             after == IF attached /\ saved = None THEN call.cache ELSE ch
         IN IF classification # None
            THEN LET category == classification.Category
                     categoryBoost == GetCategoryPriority(c, category)
                     normalizedScore == IF categoryBoost > 15 THEN 15
                                        ELSE categoryBoost
                 IN [kind |-> "ok", score |-> normalizedScore, category |-> category,
                     cache |-> after,
                     reasoning |->
                        IF categoryBoost > 0
                        THEN << <<"Category '%s' (+%d)", category, normalizedScore>> >>
                        ELSE IF categoryBoost < 0
                        THEN << <<"Category '%s' (%d)", category, categoryBoost>> >>
                        ELSE << <<"Category '%s' (+0)", category>> >>]
            ELSE [kind |-> "ok", score |-> 0, category |-> "unknown", cache |-> after,
                  reasoning |-> << <<"Unknown category (+0)">> >>]

\* the category factor, the category and the cache the embedded Classify leaves;
\* attached: the engine holds a classifier
calculateCategoryScore(c, db, ch, attached, email, hdrOrder, ruleOrder, t) ==
    IF attached /\ db = None THEN Panic
    ELSE LET saved == IF attached THEN GetClassification(db, email.ID) ELSE None
             call == ClassifyCall(c, ch, email, hdrOrder, ruleOrder, t)
             classification == IF ~attached THEN None
                               ELSE IF saved # None THEN saved ELSE call.result
             after == IF attached /\ saved = None THEN call.cache ELSE ch
         IN IF classification # None
            THEN LET category == classification.Category
                     categoryBoost == GetCategoryPriority(c, category)
                     normalizedScore == IF categoryBoost > 15 THEN 15
                                        ELSE IF categoryBoost < 0 THEN 0 ELSE categoryBoost
                 IN [kind |-> "ok", score |-> normalizedScore, category |-> category,
                     cache |-> after,
                     reasoning |->
                        IF categoryBoost > 0
                        THEN << <<"Category '%s' (+%d)", category, normalizedScore>> >>
                        ELSE IF categoryBoost < 0
                        THEN << <<"Category '%s' (%d)", category, categoryBoost>> >>
                        ELSE << <<"Category '%s' (+0)", category>> >>]
            ELSE [kind |-> "ok", score |-> 0, category |-> "unknown", cache |-> after,
                  reasoning |-> << <<"Unknown category (+0)">> >>]

\* a faulty variant: the "if score > 10" cap is missing
calculateEngagementScoreNoCap(db, email) ==
    IF db = None THEN Panic
    ELSE LET a == GetSenderAnalytics(db, email.From)
         IN [score |-> IF a = None \/ a.TotalEmails <= 0 THEN 0
                       ELSE GoDiv(5 * a.ReadCount + 5 * a.ReplyCount, a.TotalEmails),
             reasoning |-> <<>>]

\* int(readRate*5 + replyRate*5), the rates being counts over TotalEmails
calculateEngagementScore(db, email) ==
    IF db = None THEN Panic
    ELSE LET a == GetSenderAnalytics(db, email.From)
             raw == IF a = None \/ a.TotalEmails <= 0 THEN 0
                    ELSE GoDiv(5 * a.ReadCount + 5 * a.ReplyCount, a.TotalEmails)
             score == IF raw > 10 THEN 10 ELSE raw
         IN IF a = None
            THEN [score |-> 0, reasoning |-> << <<"No engagement history (+0)">> >>]
            ELSE [score |-> score,
                  reasoning |->
                     (IF score > 5
                      THEN << <<"High engagement: %.0f%% read, %.0f%% reply (+%d)",
                                a.ReadCount, a.ReplyCount, a.TotalEmails, score>> >>
                      ELSE IF score > 0 THEN << <<"Some engagement (+%d)", score>> >>
                      ELSE <<>>)
                     \o (IF score = 0 THEN << <<"No engagement history (+0)">> >> ELSE <<>>)]

calculateThreadScore(email) ==
    LET isReply == \/ StringsContains(toLower(email.Subject), <<114, 101, 58>> (* "re:" *))
                   \/ StringsContains(toLower(email.Subject), <<102, 119, 100, 58>> (* "fwd:" *))
    IN IF isReply THEN [score |-> 10, reasoning |-> << <<"Part of active thread (+10)">> >>]
       ELSE [score |-> 0, reasoning |-> << <<"New conversation (+0)">> >>]

\* <<new score, reasoning>>; the float product is taken exactly and truncated
applyTimeDecay(c, score, receivedAt, t) ==
    LET td == c.TimeDecay
        age == t - receivedAt
        scaled == 2400 - td.DecayRate * age
        decayFactor2400 == IF scaled < 0 THEN 0 ELSE scaled
        newScore == GoDiv(score * decayFactor2400, 2400)
    IN IF ~td.Enabled THEN <<score, <<>>>>
       ELSE IF age > td.MaxAgeHours
       THEN <<newScore, <<"Time decay: -%d (age: %.1f days)", score - newScore, age>>>>
       ELSE <<score, <<>>>>

\* a faulty variant: the thread factor is not added
RawScoreNoThread(sender, keywords, temporal, category, engagement, thread) ==
    0 + sender + keywords + temporal + category + engagement

\* the six "score +=" of CalculatePriority
RawScore(sender, keywords, temporal, category, engagement, thread) ==
    0 + sender + keywords + temporal + category + engagement + thread

\* a faulty variant: the upper clamp is missing
NormalizeNoUpper(score) == IF score < 0 THEN 0 ELSE score

\* "Normalize to 0-100"
Normalize(score) == IF score > 100 THEN 100 ELSE IF score < 0 THEN 0 ELSE score

\* a faulty variant: the decay is never applied
DecayStepNever(c, score, receivedAt, t) == <<score, <<>>>>

\* a faulty variant: the decay text is appended whether or not the score changed
DecayStepAlwaysSays(c, score, receivedAt, t) ==
    IF c.TimeDecay.Enabled
    THEN LET d == applyTimeDecay(c, score, receivedAt, t) IN <<d[1], <<d[2]>>>>
    ELSE <<score, <<>>>>

\* the decay step of CalculatePriority: <<score, reasoning entries to append>>
DecayStep(c, score, receivedAt, t) ==
    IF c.TimeDecay.Enabled
    THEN LET d == applyTimeDecay(c, score, receivedAt, t)
         IN IF d[1] # score THEN <<d[1], <<d[2]>>>> ELSE <<score, <<>>>>
    ELSE <<score, <<>>>>

\* CalculatePriority: Panic, or the PriorityScore and the cache left behind
CalculatePriorityCall(c, db, ch, attached, email, hdrOrder, ruleOrder, t) ==
    LET sender == calculateSenderScore(c, db, email)
        keywords == facts.of[email].keywords
        temporal == calculateTemporalScore(email, t)
        category == calculateCategoryScore(c, db, ch, attached, email, hdrOrder, ruleOrder, t)
        engagement == calculateEngagementScore(db, email)
        thread == facts.of[email].thread
    IN IF sender = Panic \/ category = Panic \/ engagement = Panic THEN Panic
       ELSE LET raw == RawScore(sender.score, keywords.score, temporal.score,
                                category.score, engagement.score, thread.score)
                decayed == DecayStep(c, raw, email.ReceivedAt, t)
            IN [kind |-> "ok",
                cache |-> category.cache,
                value |-> [EmailID |-> email.ID,
                           Score |-> Normalize(decayed[1]),
                           Factors |-> [sender |-> sender.score, keywords |-> keywords.score,
                                        temporal |-> temporal.score,
                                        category |-> category.score,
                                        engagement |-> engagement.score,
                                        thread |-> thread.score],
                           ReasoningChain |-> sender.reasoning \o keywords.reasoning
                                              \o temporal.reasoning \o category.reasoning
                                              \o engagement.reasoning \o thread.reasoning
                                              \o decayed[2],
                           Category |-> category.category,
                           Timestamp |-> t]]

\* Database.SaveClassification under the schema of the classifications table:
\* the row replaces the one of the same email id, keeps the first tag only and
\* takes the time of the write; the CHECK constraints on confidence and method
\* make the INSERT fail.  The table after the call, or None when it fails.
SaveClassificationRow(table, result, t) ==
    IF result.Confidence < 0 \/ result.Confidence > 100
       \/ result.Method \notin {"rules", "ai", "hybrid"}
    THEN None
    ELSE [id \in DOMAIN table \cup {result.EmailID} |->
             IF id = result.EmailID
             THEN [Category |-> result.Category, Confidence |-> result.Confidence,
                   Method |-> result.Method,
                   Tags |-> IF Len(result.Tags) > 0 THEN <<result.Tags[1]>> ELSE <<>>,
                   Reasoning |-> result.Reasoning, ClassifiedAt |-> t]
             ELSE table[id]]

\* the result LearnFromFeedback builds and saves
FeedbackResult(emailID, correctCategory, t) ==
    [EmailID |-> emailID, Category |-> correctCategory, Confidence |-> 100,
     Method |-> "user", Tags |-> <<"user_corrected">>, Reasoning |-> "User feedback",
     Timestamp |-> t]

\* the row UpdateVIPStatus writes: the stored one with the flag changed, or a new empty one
VIPRow(table, senderEmail, isVIP) ==
    IF senderEmail \in DOMAIN table
    THEN [table[senderEmail] EXCEPT !.IsVIP = isVIP]
    ELSE [TotalEmails |-> 0, ReadCount |-> 0, ReplyCount |-> 0, EngagementScore |-> 0,
          IsVIP |-> isVIP]

\* Database.UpdateSenderAnalytics: insert, or update on conflict of the address
UpsertAnalytics(table, address, row) ==
    [a \in DOMAIN table \cup {address} |-> IF a = address THEN row ELSE table[a]]

\* Database.SavePriority: the row replaces the one of the same email id; the
\* factors column is written as the literal "{}", whatever the factors are
SavePriorityRow(table, priorityScore, t) ==
    [id \in DOMAIN table \cup {priorityScore.EmailID} |->
        IF id = priorityScore.EmailID
        THEN [Score |-> priorityScore.Score, Factors |-> <<>>,
              Reasoning |-> priorityScore.ReasoningChain, CalculatedAt |-> t]
        ELSE table[id]]

(***************************************************************************)
(* The calls                                                               *)
(***************************************************************************)
\* the values the calls take from the pure functions, for the messages of a run
Facts(c, emails) ==
    [ruleOrders |-> Orders(DOMAIN c.ClassificationRules),
     of |-> [e \in emails |->
                [cacheKey |-> getCacheKey(e),
                 ignoreSender |-> ShouldIgnoreSender(c, e.From),
                 ignoreSubject |-> ShouldIgnoreSubject(c, e.Subject),
                 matching |-> [hdrOrder \in Orders(DOMAIN e.Headers) |->
                                  MatchingRules(c, e, hdrOrder)],
                 heuristic |-> defaultHeuristic(e),
                 keywords |-> calculateKeywordScore(c, e),
                 thread |-> calculateThreadScore(e)]]]

Db == IF dbNil THEN None ELSE [analytics |-> analytics, classifications |-> classifications]

Alive == ret.kind # "panic"

\* no call has returned since the engine was built
Idle == [op |-> "none", kind |-> "ok"]

RuleOrders == facts.ruleOrders

\* the cache holds an entry for the message that is younger than the TTL
HasFresh(ch, email, t) ==
    facts.of[email].cacheKey \in DOMAIN ch /\ t - ch[facts.of[email].cacheKey].Timestamp < CacheTTL

Classify(email) ==
    /\ Alive
    /\ \E hdrOrder \in Orders(DOMAIN email.Headers) :
       \E call \in {ClassifyCall(cfg, cache, email, hdrOrder, ruleOrder, now) :
                        ruleOrder \in RuleOrders} :
             /\ cache' = call.cache
             /\ ret' = [op |-> "Classify", kind |-> "ok", email |-> email, at |-> now,
                        value |-> call.result, hdrOrder |-> hdrOrder,
                        hit |-> HasFresh(cache, email, now),
                        before |-> IF ret.op = "Classify" /\ ret.email = email
                                   THEN [kind |-> "call", at |-> ret.at, value |-> ret.value]
                                   ELSE None]
    /\ UNCHANGED <<cfg, facts, priorities, running, dbNil, hasClassifier, now, classifications, analytics>>

CalculatePriority(email) ==
    /\ Alive
    /\ \E hdrOrder \in Orders(DOMAIN email.Headers) :
       \E call \in {CalculatePriorityCall(cfg, Db, cache, hasClassifier, email,
                                           hdrOrder, ruleOrder, now) :
                        ruleOrder \in RuleOrders} :
             IF call = Panic
             THEN /\ ret' = [op |-> "CalculatePriority", kind |-> "panic", email |-> email]
                  /\ cache' = cache
             ELSE /\ ret' = [op |-> "CalculatePriority", kind |-> "ok", email |-> email,
                             at |-> now, value |-> call.value,
                             row |-> GetSenderAnalytics(Db, email.From),
                             saved |-> GetClassification(Db, email.ID)]
                  /\ cache' = call.cache
    /\ UNCHANGED <<cfg, facts, priorities, running, dbNil, hasClassifier, now, classifications, analytics>>

\* Classifier.SaveClassification of the result Classify has just returned
SaveClassification ==
    /\ Alive
    /\ ret.op = "Classify"
    /\ IF dbNil
       THEN /\ ret' = [op |-> "SaveClassification", kind |-> "panic"]
            /\ classifications' = classifications
       ELSE LET table == SaveClassificationRow(classifications, ret.value, now)
            IN /\ classifications' = IF table = None THEN classifications ELSE table
               /\ ret' = [op |-> "SaveClassification",
                          kind |-> IF table = None THEN "error" ELSE "ok"]
    /\ UNCHANGED <<cfg, facts, priorities, running, dbNil, hasClassifier, now, cache, analytics>>

LearnFromFeedback(emailID, correctCategory) ==
    /\ Alive
    /\ IF dbNil
       THEN /\ ret' = [op |-> "LearnFromFeedback", kind |-> "panic"]
            /\ classifications' = classifications
       ELSE LET table == SaveClassificationRow(classifications,
                                               FeedbackResult(emailID, correctCategory, now),
                                               now)
            IN /\ classifications' = IF table = None THEN classifications ELSE table
               /\ ret' = [op |-> "LearnFromFeedback",
                          kind |-> IF table = None THEN "error" ELSE "ok",
                          id |-> emailID, category |-> correctCategory,
                          before |-> [cache |-> cache, rules |-> cfg.ClassificationRules]]
    /\ UNCHANGED <<cfg, facts, priorities, running, dbNil, hasClassifier, now, cache, analytics>>

UpdateVIPStatus(senderEmail, isVIP) ==
    /\ Alive
    /\ IF dbNil
       THEN /\ ret' = [op |-> "UpdateVIPStatus", kind |-> "panic"]
            /\ analytics' = analytics
       ELSE /\ analytics' = UpsertAnalytics(analytics, senderEmail,
                                            VIPRow(analytics, senderEmail, isVIP))
            /\ ret' = [op |-> "UpdateVIPStatus", kind |-> "ok"]
    /\ UNCHANGED <<cfg, facts, priorities, running, dbNil, hasClassifier, now, cache, classifications>>

\* the aggregation of sender statistics, through Database.UpdateSenderAnalytics
UpdateSenderAnalytics(address, row) ==
    /\ Alive
    /\ ~dbNil
    /\ analytics' = UpsertAnalytics(analytics, address, row)
    /\ ret' = [op |-> "UpdateSenderAnalytics", kind |-> "ok"]
    /\ UNCHANGED <<cfg, facts, priorities, running, dbNil, hasClassifier, now, cache, classifications>>

\* the loop of ClassifyBatch from message i on: the <<results, cache>> it can end with
RECURSIVE BatchLoop(_, _, _, _, _)
BatchLoop(c, ch, emails, i, t) ==
    IF i > Len(emails) THEN {[results |-> <<>>, cache |-> ch]}
    ELSE LET calls == {ClassifyCall(c, ch, emails[i], hdrOrder, ruleOrder, t) :
                          hdrOrder \in Orders(DOMAIN emails[i].Headers),
                          ruleOrder \in RuleOrders}
         IN UNION {{[results |-> <<call.result>> \o rest.results, cache |-> rest.cache] :
                        rest \in BatchLoop(c, call.cache, emails, i + 1, t)} :
                    call \in calls}

\* Classify has no error return, so the error branch of ClassifyBatch is never taken
ClassifyBatch(emails) ==
    /\ Alive
    /\ \E out \in BatchLoop(cfg, cache, emails, 1, now) :
          /\ cache' = out.cache
          /\ ret' = [op |-> "ClassifyBatch", kind |-> "ok", emails |-> emails, at |-> now,
                     value |-> out.results, cacheBefore |-> cache]
    /\ UNCHANGED <<cfg, facts, priorities, running, dbNil, hasClassifier, now, classifications, analytics>>

\* the loop of RecalculatePriorities from message i on; failAt is the
\* position at which the store refuses the write (0: it never does).  The
\* outcomes: error or nil, the message named in the error, the cache and the
\* table left behind, the scores computed so far.
RECURSIVE RecalculateLoop(_, _, _, _, _, _, _, _, _, _)
RecalculateLoop(c, db, ch, attached, listed, failAt, i, table, computed, t) ==
    IF i > Len(listed)
    THEN {[kind |-> "ok", failed |-> None, cache |-> ch, table |-> table,
           computed |-> computed]}
    ELSE LET calls == {CalculatePriorityCall(c, db, ch, attached, listed[i],
                                             <<>>, ruleOrder, t) :
                          ruleOrder \in RuleOrders}
         IN UNION {IF i = failAt
                   THEN {[kind |-> "error", failed |-> listed[i].ID, cache |-> call.cache,
                          table |-> table, computed |-> Append(computed, call.value)]}
                   ELSE RecalculateLoop(c, db, call.cache, attached, listed, failAt, i + 1,
                                        SavePriorityRow(table, call.value, t),
                                        Append(computed, call.value), t) :
                   call \in calls}

\* RecalculatePriorities on a store whose ListEmails answers with listed
RecalculatePriorities(listed, failAt) ==
    /\ Alive
    /\ ~dbNil
    /\ \E out \in RecalculateLoop(cfg, Db, cache, hasClassifier, listed, failAt, 1,
                                    priorities, <<>>, now) :
          /\ cache' = out.cache
          /\ priorities' = out.table
          /\ ret' = [op |-> "RecalculatePriorities", kind |-> out.kind, emails |-> listed,
                     failed |-> out.failed, computed |-> out.computed, at |-> now,
                     before |-> priorities]
    /\ UNCHANGED <<cfg, facts, running, dbNil, hasClassifier, now, classifications, analytics>>

\* PriorityEngine.SavePriority of the PriorityScore CalculatePriority has just
\* returned: the chain is joined with "; " into the reasoning column
SavePriority ==
    /\ Alive
    /\ ~dbNil
    /\ ret.op = "CalculatePriority"
    /\ priorities' = SavePriorityRow(priorities, ret.value, now)
    /\ ret' = [op |-> "SavePriority", kind |-> "ok", value |-> ret.value]
    /\ UNCHANGED <<cfg, facts, running, dbNil, hasClassifier, now, cache, classifications, analytics>>

\* strings.Split(strings.Join(chain, "; "), "; "): the joined empty chain is
\* the empty string, which splits into one empty entry; no entry built from
\* the formats and configurations here contains the separator
SplitJoined(chain) == IF chain = <<>> THEN << <<>> >> ELSE chain

\* PriorityEngine.GetPriorityBreakdown: GetPriority answers with an empty
\* factor map; saved is the PriorityScore of a SavePriority just before
GetPriorityBreakdown(emailID) ==
    /\ Alive
    /\ ~dbNil
    /\ ret' = IF emailID \in DOMAIN priorities
              THEN [op |-> "GetPriorityBreakdown", kind |-> "ok", id |-> emailID,
                    value |-> [EmailID |-> emailID, Score |-> priorities[emailID].Score,
                               Factors |-> priorities[emailID].Factors,
                               ReasoningChain |-> SplitJoined(priorities[emailID].Reasoning),
                               Timestamp |-> priorities[emailID].CalculatedAt],
                    saved |-> IF ret.op = "SavePriority" /\ ret.value.EmailID = emailID
                              THEN ret.value ELSE None]
              ELSE [op |-> "GetPriorityBreakdown", kind |-> "error", id |-> emailID,
                    saved |-> None]
    /\ UNCHANGED <<cfg, facts, priorities, running, dbNil, hasClassifier, now, cache, classifications, analytics>>

ClearCache ==
    /\ Alive
    /\ cache' = <<>>
    /\ ret' = [op |-> "ClearCache", kind |-> "ok"]
    /\ UNCHANGED <<cfg, facts, priorities, running, dbNil, hasClassifier, now, classifications, analytics>>

TickHours == 12

MaxHour == 124

\* time passes
Tick ==
    /\ Alive
    /\ now + TickHours <= MaxHour
    /\ now' = now + TickHours
    /\ UNCHANGED <<cfg, facts, priorities, running, dbNil, hasClassifier, cache, classifications, analytics, ret>>

Init ==
    /\ cfg \in Configs
    /\ facts = Facts(cfg, Emails)
    /\ dbNil \in BOOLEAN
    /\ hasClassifier \in BOOLEAN
    /\ now = StartHour
    /\ cache = <<>>
    /\ classifications = <<>>
    /\ priorities = <<>>
    /\ running = <<>>
    /\ analytics = <<>>
    /\ ret = Idle

Next ==
    \/ \E email \in Emails : Classify(email)
    \/ \E email \in Emails : CalculatePriority(email)
    \/ \E emails \in Batches : ClassifyBatch(emails)
    \/ SaveClassification
    \/ \E id \in EmailIDs, c \in FeedbackCategories : LearnFromFeedback(id, c)
    \/ \E s \in MainSenders, b \in BOOLEAN : UpdateVIPStatus(s, b)
    \/ \E s \in MainSenders, row \in MainRows : UpdateSenderAnalytics(s, row)
    \/ ClearCache
    \/ Tick

Spec == Init /\ [][Next]_vars

\* the classifier alone: Classify calls, ClearCache and the passing of time
InitClassifier ==
    /\ Init
    /\ ~dbNil
    /\ hasClassifier

NextClassifier ==
    \/ \E email \in Emails : Classify(email)
    \/ ClearCache
    \/ Tick

SpecClassifier == InitClassifier /\ [][NextClassifier]_vars

(***************************************************************************)
(* One CalculatePriority call on a store that already holds rows           *)
(***************************************************************************)
Row(total, read, reply, engagement, vip) ==
    [TotalEmails |-> total, ReadCount |-> read, ReplyCount |-> reply,
     EngagementScore |-> engagement, IsVIP |-> vip]

\* sender_analytics rows: counts are not tied to one another by the schema
ScoreRows ==
    { Row(0, 0, 0, 0, FALSE), Row(1, 1, 0, 7, FALSE), Row(2, 1, 0, 5, FALSE),
      Row(1, 1, 1, 100, FALSE), Row(1, 2, 2, 100, TRUE), Row(2, 2, 1, 50, FALSE) }

SavedCategories == {"work", "spam", "personal"}

\* a classifications row written by an earlier SaveClassification
SavedRow(category) ==
    [Category |-> category, Confidence |-> 90, Method |-> "rules", Tags |-> <<"auto">>,
     Reasoning |-> "saved", ClassifiedAt |-> StartHour]

InitScore ==
    /\ cfg \in Configs
    /\ facts = Facts(cfg, ScoreEmails)
    /\ dbNil \in BOOLEAN
    /\ hasClassifier \in BOOLEAN
    /\ now = StartHour
    /\ cache = <<>>
    /\ analytics \in {<<>>} \cup {[a \in ScoreSenders |-> row] : row \in ScoreRows}
    /\ classifications \in {<<>>} \cup {[id \in {"s1"} |-> SavedRow(k)] : k \in SavedCategories}
    /\ dbNil => analytics = <<>> /\ classifications = <<>>
    /\ priorities = <<>>
    /\ running = <<>>
    /\ ret = Idle

NextScore == \E email \in ScoreEmails : ret = Idle /\ CalculatePriority(email)

SpecScore == InitScore /\ [][NextScore]_vars

(***************************************************************************)
(* Properties of CalculatePriority                                         *)
(***************************************************************************)
Scored == ret.op = "CalculatePriority" /\ ret.kind = "ok"

FactorSum(f) == f.sender + f.keywords + f.temporal + f.category + f.engagement + f.thread

\* decay applies to the scored message: it is enabled and the message is older
\* than MaxAgeHours
DecayApplies ==
    cfg.TimeDecay.Enabled /\ ret.at - ret.email.ReceivedAt > cfg.TimeDecay.MaxAgeHours

\* C1: the Score CalculatePriority returns is an integer between 0 and 100,
\* whatever the message, the configuration and the stored rows
C1_ScoreInRange == Scored => ret.value.Score \in 0..100

\* a call whose decayed sum exceeded 100 and was clamped
C1_Witness ==
    /\ Scored
    /\ DecayApplies
    /\ applyTimeDecay(cfg, FactorSum(ret.value.Factors), ret.email.ReceivedAt, ret.at)[1] > 100
    /\ ret.value.Score = 100

\* C2: the Score equals the sum of the six Factors clamped to [0,100] when no
\* decay applies, and the sum changed by the decay and then clamped when it applies
C2_ScoreIsSumOfFactors ==
    Scored =>
        LET sum == FactorSum(ret.value.Factors)
            decayed == IF DecayApplies
                       THEN applyTimeDecay(cfg, sum, ret.email.ReceivedAt, ret.at)[1]
                       ELSE sum
        IN ret.value.Score = (IF decayed > 100 THEN 100 ELSE IF decayed < 0 THEN 0 ELSE decayed)

\* a call where a reply in a thread was scored, decay applied and lowered the sum
C2_Witness ==
    /\ Scored
    /\ DecayApplies
    /\ ret.value.Factors.thread = 10
    /\ ret.value.Score > 0
    /\ ret.value.Score < FactorSum(ret.value.Factors)

C6_AlwaysReturnsScore ==
    ret.op = "CalculatePriority" =>
        /\ ret.kind = "ok"
        /\ ret.row = None => ret.value.Factors.engagement = 0
        /\ ~hasClassifier => ret.value.Category = "unknown" /\ ret.value.Factors.category = 0

\* the part of C6 that the code keeps: with a database, a call without a row
\* and without a classifier returns engagement 0 and category "unknown"
C6_Witness ==
    /\ Scored
    /\ ~hasClassifier
    /\ ret.row = None
    /\ ret.value.Factors.engagement = 0
    /\ ret.value.Category = "unknown"

\* C10: a sender on the VIP list gets the sender factor 30, whatever else is
\* known about the sender
C10_VIPSenderScores30 ==
    (Scored /\ IsVIPSender(cfg, ret.email.From)) => ret.value.Factors.sender = 30

\* a VIP sender of an important domain, with a stored row, was scored
C10_Witness ==
    /\ Scored
    /\ IsVIPSender(cfg, ret.email.From)
    /\ IsImportantDomain(cfg, ExtractDomain(ret.email.From))
    /\ ret.row # None
    /\ ret.value.Factors.sender = 30

(***************************************************************************)
(* Properties of Classify                                                  *)
(***************************************************************************)
Classified == ret.op = "Classify" /\ ret.kind = "ok"

\* the call went past the cache check and the two ignore lists
ReachedRules ==
    /\ Classified
    /\ ~ret.hit
    /\ ~facts.of[ret.email].ignoreSender
    /\ ~facts.of[ret.email].ignoreSubject

\* the rules the classified message matches
Matched == facts.of[ret.email].matching[ret.hdrOrder]

\* C4: two Classify calls on the same message less than 24 hours apart return
\* the same result, field by field, the timestamp included
C4_RepeatedClassifyIdentical ==
    (Classified /\ ret.before # None /\ ret.at - ret.before.at < CacheTTL)
        => ret.value = ret.before.value

\* a second call, later than the first, that was answered from the cache
C4_Witness ==
    /\ Classified
    /\ ret.before # None
    /\ ret.at > ret.before.at
    /\ ret.hit
    /\ ret.value = ret.before.value

BadCondition(cond) ==
    \/ cond.Field \notin {"from", "to", "subject", "body", "headers"}
    \/ cond.Operator \notin {"contains", "contains_any", "regex", "domain_in", "domain_not_in"}
    \/ cond.Operator = "regex" /\ ~RegexCompiles(cond.Value)

BadRules ==
    {k \in DOMAIN cfg.ClassificationRules :
        \E i \in 1..Len(cfg.ClassificationRules[k].Conditions) :
            BadCondition(cfg.ClassificationRules[k].Conditions[i])}

\* C5: Classify returns a result and no error for every message and rule set;
\* a rule with a pattern that does not compile, an unknown field or an unknown
\* operator does not match, so its category is never the result
C5_ClassifyAlwaysReturns ==
    ret.op = "Classify" =>
        /\ ret.kind = "ok"
        /\ ret.value.EmailID \in EmailIDs
        /\ ret.value.Category \notin BadRules

\* a message the broken pattern and the unknown operator are written for was
\* classified, past the cache, by the heuristics
C5_Witness ==
    /\ Classified
    /\ ~ret.hit
    /\ Cardinality(BadRules) = 3
    /\ contains(toLower(ret.email.Subject), <<104, 101, 108, 108, 111>> (* "hello" *))
    /\ ret.value.Tags = <<"default", "heuristic">>

\* C7: a sender matching an ignore pattern, with no fresh cache entry, is
\* classified spam with confidence 0.99, method rules, tags ignored and auto,
\* whatever the subject and the rules say
C7_IgnoredSenderIsSpam ==
    (Classified /\ ~ret.hit
        /\ \E i \in 1..Len(cfg.IgnoreSenders) :
              matchPattern(toLower(ret.email.From), toLower(cfg.IgnoreSenders[i])))
    => /\ ret.value.Category = "spam"
       /\ ret.value.Confidence = 99
       /\ ret.value.Method = "rules"
       /\ ret.value.Tags = <<"ignored", "auto">>

\* an ignored sender whose message also matches a rule was classified spam
C7_Witness ==
    /\ Classified
    /\ ~ret.hit
    /\ facts.of[ret.email].ignoreSender
    /\ Matched # {}
    /\ ret.value.Category = "spam"

\* C8: when at least one rule matches, the result carries the category,
\* confidence and tags of a matching rule of highest confidence; the heuristics
\* answer only when no rule matches
C8_BestRuleWins ==
    ReachedRules =>
        IF Matched = {}
        THEN ret.value.Tags = <<"default", "heuristic">>
        ELSE \E k \in Matched :
                /\ \A j \in Matched : cfg.ClassificationRules[j].Confidence
                                           <= cfg.ClassificationRules[k].Confidence
                /\ ret.value.Category = k
                /\ ret.value.Confidence = cfg.ClassificationRules[k].Confidence
                /\ ret.value.Tags = cfg.ClassificationRules[k].Tags

\* three rules of two confidences matched and the highest one answered
C8_Witness ==
    /\ ReachedRules
    /\ Cardinality(Matched) = 3
    /\ ret.value.Category \in Matched
    /\ \A j \in Matched : cfg.ClassificationRules[j].Confidence <= ret.value.Confidence
    /\ \E j \in Matched : cfg.ClassificationRules[j].Confidence < ret.value.Confidence

\* C9: when no rule is selected the heuristics are tried in a fixed order and
\* the first that applies answers: automated sender, newsletter words,
\* promotion words, invoice words, urgent words, else personal
C9_HeuristicOrder ==
    (ReachedRules /\ \A k \in Matched : cfg.ClassificationRules[k].Confidence <= 0) =>
        LET subject == toLower(ret.email.Subject)
            automated == containsAny(toLower(ret.email.From), AutomatedSenders)
            newsletter == containsAny(subject, NewsletterWords)
            promotion == containsAny(subject, PromotionWords)
            invoice == containsAny(subject, InvoiceWords)
            urgent == containsAny(subject, UrgentWords)
            answer == <<ret.value.Category, ret.value.Confidence>>
        IN /\ automated => answer = <<"newsletters", 70>>
           /\ (~automated /\ newsletter) => answer = <<"newsletters", 75>>
           /\ (~automated /\ ~newsletter /\ promotion) => answer = <<"promotions", 80>>
           /\ (~automated /\ ~newsletter /\ ~promotion /\ invoice) => answer = <<"invoice", 85>>
           /\ (~automated /\ ~newsletter /\ ~promotion /\ ~invoice /\ urgent)
                 => answer = <<"urgent", 90>>
           /\ (~automated /\ ~newsletter /\ ~promotion /\ ~invoice /\ ~urgent)
                 => answer = <<"personal", 50>>

\* a subject with both a promotion word and an invoice word was classified
\* promotions by the heuristics
C9_Witness ==
    /\ ReachedRules
    /\ Matched = {}
    /\ containsAny(toLower(ret.email.Subject), PromotionWords)
    /\ containsAny(toLower(ret.email.Subject), InvoiceWords)
    /\ ret.value.Category = "promotions"
    /\ ret.value.Confidence = 80

(***************************************************************************)
(* Properties of the keyword factor                                        *)
(***************************************************************************)
\* text holds, in any letter case, one of the configuration's urgent keywords
HoldsUrgentKeyword(text) ==
    \E i \in 1..Len(cfg.UrgentKeywords) :
        StringsContains(toLower(text), toLower(cfg.UrgentKeywords[i]))

HoldsActionKeyword(text) ==
    \E i \in 1..Len(ActionKeywords) : StringsContains(toLower(text), ActionKeywords[i])

\* C11 as stated: a subject holding the word "urgent" in any letter case gets
\* the keyword factor 20
C11_UrgentWordScores20 ==
    (Scored /\ StringsContains(toLower(ret.email.Subject), <<117, 114, 103, 101, 110, 116>> (* "urgent" *)))
        => ret.value.Factors.keywords = 20

\* C11 amended: the keyword factor is 20 when the subject holds a configured
\* urgent keyword in any letter case, else 15 when the body snippet holds one,
\* else 10 when subject or body hold a fixed action keyword, else 0
C11_KeywordFactor ==
    Scored =>
        ret.value.Factors.keywords =
            IF HoldsUrgentKeyword(ret.email.Subject) THEN 20
            ELSE IF HoldsUrgentKeyword(ret.email.BodySnippet) THEN 15
            ELSE IF HoldsActionKeyword(ret.email.Subject)
                    \/ HoldsActionKeyword(ret.email.BodySnippet) THEN 10
            ELSE 0

\* a subject holding a configured keyword in another letter case scored 20
C11_Witness ==
    /\ Scored
    /\ HoldsUrgentKeyword(ret.email.Subject)
    /\ ~(\E i \in 1..Len(cfg.UrgentKeywords) :
            StringsContains(ret.email.Subject, cfg.UrgentKeywords[i]))
    /\ ret.value.Factors.keywords = 20

(***************************************************************************)
(* Properties of the time decay                                            *)
(***************************************************************************)
\* the score the same call gives with decay disabled: the clamped sum
ScoreWithoutDecay == Normalize(FactorSum(ret.value.Factors))

\* C12: under a configuration Validate accepts, with decay enabled and a
\* message older than the max age, the returned score is at most the score of
\* the same message without decay
C12_DecayNeverIncreases ==
    (Scored /\ Validate(cfg) /\ DecayApplies) => ret.value.Score <= ScoreWithoutDecay

\* a positive decay rate lowered the score of an old message
C12_Witness ==
    /\ Scored
    /\ Validate(cfg)
    /\ DecayApplies
    /\ cfg.TimeDecay.DecayRate > 0
    /\ ret.value.Score < ScoreWithoutDecay

(***************************************************************************)
(* Properties of the reasoning chain                                       *)
(***************************************************************************)
\* the texts each step of CalculatePriority can append, by their format string
SenderTexts ==
    {"VIP sender (+30)", "Important domain: %s (+20)", "Learned VIP sender (+25)",
     "Engagement score: %d (+%d)", "Unknown sender (+0)"}
KeywordTexts ==
    {"Urgent keyword in subject: '%s' (+20)", "Urgent keyword in body: '%s' (+15)",
     "Action keyword: '%s' (+10)", "No urgent keywords (+0)"}
TemporalTexts ==
    {"Very recent: <1 hour (+15)", "Recent: <6 hours (+10)", "Today (+5)",
     "Last 3 days (+2)", "Old: %d days (+0)"}
CategoryTexts ==
    {"Category '%s' (+%d)", "Category '%s' (%d)", "Category '%s' (+0)", "Unknown category (+0)"}
EngagementTexts ==
    {"High engagement: %.0f%% read, %.0f%% reply (+%d)", "Some engagement (+%d)",
     "No engagement history (+0)"}
ThreadTexts == {"Part of active thread (+10)", "New conversation (+0)"}
DecayTexts == {"Time decay: -%d (age: %.1f days)"}

FactorTexts ==
    <<SenderTexts, KeywordTexts, TemporalTexts, CategoryTexts, EngagementTexts, ThreadTexts>>

NextBatch ==
    \/ \E emails \in Batches : ClassifyBatch(emails)
    \/ Tick

SpecBatch == InitClassifier /\ [][NextBatch]_vars

\* results is what Classify returns for each message of emails in turn,
\* starting from the cache ch at time t
RECURSIVE OneAfterAnother(_, _, _, _, _)
OneAfterAnother(ch, emails, results, i, t) ==
    \/ i > Len(emails)
    \/ \E hdrOrder \in Orders(DOMAIN emails[i].Headers), ruleOrder \in RuleOrders :
          LET call == ClassifyCall(cfg, ch, emails[i], hdrOrder, ruleOrder, t)
          IN /\ results[i] = call.result
             /\ OneAfterAnother(call.cache, emails, results, i + 1, t)

\* C14: ClassifyBatch returns an error and no results, or one result per
\* message in input order, result i being what Classify returns for message i
\* when the messages are classified one after another; result i carries
\* message i's identifier
C14_BatchResultsInOrder ==
    ret.op = "ClassifyBatch" =>
        \/ ret.kind = "error" /\ ret.value = <<>>
        \/ /\ ret.kind = "ok"
           /\ Len(ret.value) = Len(ret.emails)
           /\ OneAfterAnother(ret.cacheBefore, ret.emails, ret.value, 1, ret.at)
           /\ \A i \in 1..Len(ret.emails) : ret.value[i].EmailID = ret.emails[i].ID

\* a batch of two different messages came back with a result for each, in
\* order and under the right identifiers
C14_Witness ==
    /\ ret.op = "ClassifyBatch"
    /\ ret.kind = "ok"
    /\ Len(ret.emails) = 2
    /\ ret.emails[1].ID # ret.emails[2].ID
    /\ Len(ret.value) = 2
    /\ \A i \in 1..2 : ret.value[i].EmailID = ret.emails[i].ID

(***************************************************************************)
(* RecalculatePriorities calls                                             *)
(***************************************************************************)
InitRecalculate ==
    /\ cfg \in Configs
    /\ facts = Facts(cfg, ListedEmails)
    /\ dbNil = FALSE
    /\ hasClassifier \in BOOLEAN
    /\ now = StartHour
    /\ cache = <<>>
    /\ classifications = <<>>
    /\ priorities = <<>>
    /\ running = <<>>
    /\ analytics = <<>>
    /\ ret = Idle

NextRecalculate ==
    \/ \E listed \in Listings, failAt \in 0..MaxListed :
          failAt <= Len(listed) /\ RecalculatePriorities(listed, failAt)
    \/ Tick

SpecRecalculate == InitRecalculate /\ [][NextRecalculate]_vars

Recalculated == ret.op = "RecalculatePriorities"

\* the row of message id in a priorities table, None when there is none
PriorityRow(table, id) == IF id \in DOMAIN table THEN table[id] ELSE None

\* C15: the listed messages are handled in list order; on a failure at message
\* k the error names k and no priority is written for a message after k; on
\* success every listed message has a persisted priority equal to the computed one
C15_RecalculateAbortsOrPersists ==
    Recalculated =>
        IF ret.kind = "error"
        THEN \E k \in 1..Len(ret.emails) :
                /\ ret.failed = ret.emails[k].ID
                /\ \A j \in k + 1..Len(ret.emails) :
                      PriorityRow(priorities, ret.emails[j].ID)
                          = PriorityRow(ret.before, ret.emails[j].ID)
        ELSE \A i \in 1..Len(ret.emails) :
                LET row == PriorityRow(priorities, ret.emails[i].ID)
                IN /\ row # None
                   /\ ret.computed[i].EmailID = ret.emails[i].ID
                   /\ row.Score = ret.computed[i].Score
                   /\ row.Reasoning = ret.computed[i].ReasoningChain
                   /\ row.Factors = ret.computed[i].Factors

\* a run over two messages stopped at the first: the error names it, and the
\* second has no row
C15_Witness ==
    /\ Recalculated
    /\ ret.kind = "error"
    /\ Len(ret.emails) = 2
    /\ ret.failed = ret.emails[1].ID
    /\ PriorityRow(priorities, ret.emails[2].ID) = None

(***************************************************************************)
(* The tool handlers of the server.  NewIntelligentEmailServer opens the   *)
(* store, loads a configuration that passes Validate and attaches the      *)
(* classifier to the engine.  An argument is the value the handler reads   *)
(* from the map: the empty string when the key is missing or not a string. *)
(* A handler that returns an error records the cache and the tables it     *)
(* was called on.  The calls of this specification come at one instant.    *)
(***************************************************************************)
HandlerIDs == {"", "e1"}

HandlerSenders == { <<>>, <<98, 111, 115, 115, 64, 120, 46, 99, 111>> (* "boss@x.co" *) }

HandlerSubjects == { <<>>, <<85, 82, 71, 69, 78, 84, 58, 32, 98, 105, 108, 108>> (* "URGENT: bill" *) }

\* received_at: missing, not RFC 3339, or the RFC 3339 text of an hour
ReceivedAtArgs == {[kind |-> "empty"], [kind |-> "invalid"], [kind |-> "rfc3339", hour |-> 76]}

\* the arguments HandleClassifyEmail reads
ClassifyArgs ==
    [email_id : HandlerIDs, from : HandlerSenders, subject : HandlerSubjects,
     body_snippet : { <<>> }]

\* the arguments HandleAnalyzePriority reads
AnalyzeArgs ==
    [email_id : HandlerIDs, from : HandlerSenders, subject : HandlerSubjects,
     body_snippet : { <<>> }, received_at : ReceivedAtArgs]

\* the messages a handler can build from its arguments
HandlerEmails ==
    {Mail(id, from, <<>>, subject, <<>>, NoHeaders, t) :
        id \in HandlerIDs, from \in HandlerSenders, subject \in HandlerSubjects,
        t \in {StartHour, 76}}

RequiredMissingSenderOnly(from, subject) == from = <<>>

\* from == "" || subject == ""
RequiredMissing(from, subject) == from = <<>> \/ subject = <<>>

\* time.Parse(time.RFC3339, receivedAtStr), time.Now() when it fails or is not given
ParseReceivedAt(arg, t) == IF arg.kind = "rfc3339" THEN arg.hour ELSE t

\* the cache and the tables as they are
Stores ==
    [cache |-> cache, classifications |-> classifications, priorities |-> priorities,
     analytics |-> analytics]

HandleClassifyEmail(args) ==
    /\ Alive
    /\ IF RequiredMissing(args.from, args.subject)
       THEN /\ ret' = [op |-> "HandleClassifyEmail", kind |-> "error", args |-> args,
                       before |-> Stores]
            /\ UNCHANGED <<cache, classifications>>
       ELSE LET email == Mail(args.email_id, args.from, <<>>, args.subject,
                              args.body_snippet, NoHeaders, now)
            IN \E call \in {ClassifyCall(cfg, cache, email, <<>>, ruleOrder, now) :
                               ruleOrder \in RuleOrders} :
                  LET table == SaveClassificationRow(classifications, call.result, now)
                  IN /\ cache' = call.cache
                     /\ classifications' = IF args.email_id = "" \/ table = None
                                           THEN classifications ELSE table
                     /\ ret' = [op |-> "HandleClassifyEmail", kind |-> "ok", args |-> args,
                                value |-> call.result]
    /\ UNCHANGED <<cfg, facts, priorities, running, dbNil, hasClassifier, now, analytics>>

HandleAnalyzePriority(args) ==
    /\ Alive
    /\ IF args.email_id # ""
       THEN /\ ret' = [op |-> "HandleAnalyzePriority",
                       kind |-> IF PriorityRow(priorities, args.email_id) = None
                                THEN "error" ELSE "ok",
                       args |-> args, value |-> PriorityRow(priorities, args.email_id)]
            /\ cache' = cache
       ELSE IF RequiredMissing(args.from, args.subject)
       THEN /\ ret' = [op |-> "HandleAnalyzePriority", kind |-> "error", args |-> args,
                       before |-> Stores]
            /\ cache' = cache
       ELSE LET email == Mail("", args.from, <<>>, args.subject, args.body_snippet,
                              NoHeaders, ParseReceivedAt(args.received_at, now))
            IN \E call \in {CalculatePriorityCall(cfg, Db, cache, hasClassifier, email,
                                                  <<>>, ruleOrder, now) :
                               ruleOrder \in RuleOrders} :
                  /\ cache' = call.cache
                  /\ ret' = [op |-> "HandleAnalyzePriority", kind |-> "ok", args |-> args,
                             value |-> call.value]
    /\ UNCHANGED <<cfg, facts, priorities, running, dbNil, hasClassifier, now, classifications, analytics>>

\* the priorities table the server starts on: empty, or with the row of e1
StoredPriorities ==
    {<<>>,
     SavePriorityRow(<<>>, [EmailID |-> "e1", Score |-> 35,
                            ReasoningChain |-> << <<"Unknown sender (+0)">> >>], StartHour)}

InitServer ==
    /\ cfg \in {c \in Configs : Validate(c)}
    /\ facts = Facts(cfg, HandlerEmails)
    /\ dbNil = FALSE
    /\ hasClassifier = TRUE
    /\ now = StartHour
    /\ cache = <<>>
    /\ classifications = <<>>
    /\ priorities \in StoredPriorities
    /\ running = <<>>
    /\ analytics = <<>>
    /\ ret = Idle

NextServer ==
    \/ \E args \in ClassifyArgs : HandleClassifyEmail(args)
    \/ \E args \in AnalyzeArgs : HandleAnalyzePriority(args)

SpecServer == InitServer /\ [][NextServer]_vars

\* a classify_email call, or an analyze_priority call without email_id, has returned
ValidatingCall ==
    \/ ret.op = "HandleClassifyEmail"
    \/ ret.op = "HandleAnalyzePriority" /\ ret.args.email_id = ""

\* C16: a classify_email call, or an analyze_priority call without email_id,
\* whose sender or subject is empty returns an error and leaves the cache and
\* the store as they were
C16_MissingFieldRejected ==
    ValidatingCall /\ (ret.args.from = <<>> \/ ret.args.subject = <<>>) =>
        /\ ret.kind = "error"
        /\ Stores = ret.before

\* an analyze_priority call without subject is rejected on a server whose
\* cache and classifications table are in use
C16_Witness ==
    /\ ret.op = "HandleAnalyzePriority"
    /\ ret.args.email_id = ""
    /\ ret.args.from # <<>>
    /\ ret.args.subject = <<>>
    /\ ret.kind = "error"
    /\ cache # <<>>
    /\ classifications # <<>>
    /\ Stores = ret.before

(***************************************************************************)
(* Classify called from several goroutines on one Classifier.  The cache   *)
(* is a plain map and Classify takes no lock: a call reads the map         *)
(* (line 56) and, when it has classified by the rules, writes it           *)
(* (line 91).  A map access takes time: it begins and it ends.  When a     *)
(* write is in progress together with another access the Go runtime may    *)
(* stop the program with a fatal error (concurrent map read and map write, *)
(* concurrent map writes) or may let the accesses through.                 *)
(***************************************************************************)
MaxGoroutines == 2

Goroutines == 1..MaxGoroutines

ConcurrentEmails == {e \in Emails : e.ID \in {"e1", "e5"}}

\* the program has not been stopped by the runtime
Running == ret.kind # "fatal"

\* the call of goroutine g moves to pc with value
Step(g, pc, value) ==
    running' = [running EXCEPT ![g] = [email |-> running[g].email, pc |-> pc, value |-> value]]

\* go Classify(email)
Go(g, email) ==
    /\ Running
    /\ g \notin DOMAIN running
    /\ running' = [h \in DOMAIN running \cup {g} |->
                      IF h = g THEN [email |-> email, pc |-> "read", value |-> None]
                      ELSE running[h]]
    /\ UNCHANGED <<cfg, facts, priorities, dbNil, hasClassifier, now, cache, classifications, analytics, ret>>

\* line 56: the read of c.cache[cacheKey] begins
ReadBegin(g) ==
    /\ Running
    /\ g \in DOMAIN running
    /\ running[g].pc = "read"
    /\ Step(g, "reading", None)
    /\ UNCHANGED <<cfg, facts, priorities, dbNil, hasClassifier, now, cache, classifications, analytics, ret>>

\* lines 56-88: the read ends; the call returns the cached result or the
\* result for an ignored message, or has a result to put into the cache
ReadEnd(g) ==
    /\ Running
    /\ g \in DOMAIN running
    /\ running[g].pc = "reading"
    /\ LET email == running[g].email
       IN \E hdrOrder \in Orders(DOMAIN email.Headers), ruleOrder \in RuleOrders :
             LET call == ClassifyCall(cfg, cache, email, hdrOrder, ruleOrder, now)
             IN Step(g, IF HasFresh(cache, email, now) \/ facts.of[email].ignoreSender
                           \/ facts.of[email].ignoreSubject
                        THEN "done" ELSE "write",
                     call.result)
    /\ UNCHANGED <<cfg, facts, priorities, dbNil, hasClassifier, now, cache, classifications, analytics, ret>>

\* line 91: the write of c.cache[cacheKey] begins
WriteBegin(g) ==
    /\ Running
    /\ g \in DOMAIN running
    /\ running[g].pc = "write"
    /\ Step(g, "writing", running[g].value)
    /\ UNCHANGED <<cfg, facts, priorities, dbNil, hasClassifier, now, cache, classifications, analytics, ret>>

\* lines 91-93: the write ends and the call returns
WriteEnd(g) ==
    /\ Running
    /\ g \in DOMAIN running
    /\ running[g].pc = "writing"
    /\ cache' = [k \in DOMAIN cache \cup {facts.of[running[g].email].cacheKey} |->
                    IF k = facts.of[running[g].email].cacheKey
                    THEN running[g].value ELSE cache[k]]
    /\ Step(g, "done", running[g].value)
    /\ UNCHANGED <<cfg, facts, priorities, dbNil, hasClassifier, now, classifications, analytics, ret>>

\* a write of the map is in progress together with another access
Overlap ==
    \E g, h \in DOMAIN running :
        /\ g # h
        /\ running[g].pc = "writing"
        /\ running[h].pc \in {"reading", "writing"}

\* the runtime detects the concurrent map access and stops the program
Fatal ==
    /\ Running
    /\ Overlap
    /\ ret' = [op |-> "Classify", kind |-> "fatal"]
    /\ UNCHANGED <<cfg, facts, priorities, running, dbNil, hasClassifier, now, cache, classifications, analytics>>

InitConcurrent == InitClassifier

NextConcurrent ==
    \/ \E g \in Goroutines, email \in ConcurrentEmails : Go(g, email)
    \/ \E g \in Goroutines : ReadBegin(g)
    \/ \E g \in Goroutines : ReadEnd(g)
    \/ \E g \in Goroutines : WriteBegin(g)
    \/ \E g \in Goroutines : WriteEnd(g)
    \/ Fatal

SpecConcurrent == InitConcurrent /\ [][NextConcurrent]_vars

\* the results Classify gives for email when it is the only call
Alone(email) ==
    {ClassifyCall(cfg, <<>>, email, hdrOrder, ruleOrder, now).result :
        hdrOrder \in Orders(DOMAIN email.Headers), ruleOrder \in RuleOrders}

\* C17: under concurrent Classify calls no write of the cache overlaps another
\* read or write of it, the program is not stopped, every call that has
\* returned has the result it gets alone, and when all calls have returned
\* the cache holds an entry for each classified message
C17_CacheAccessExclusive ==
    /\ ~Overlap
    /\ Running
    /\ \A g \in DOMAIN running :
          running[g].pc = "done" => running[g].value \in Alone(running[g].email)
    /\ (\A g \in DOMAIN running : running[g].pc = "done") =>
          \A g \in DOMAIN running : facts.of[running[g].email].cacheKey \in DOMAIN cache

\* two calls on different messages, one writing the cache while the other reads it
C17_Witness ==
    \E g, h \in DOMAIN running :
        /\ running[g].email # running[h].email
        /\ running[g].pc = "writing"
        /\ running[h].pc = "reading"

(***************************************************************************)
(* Feedback on classified and saved messages                               *)
(***************************************************************************)
FeedbackEmails == {e \in Emails : e.ID \in {"e1", "e5"}}

InitFeedback == InitClassifier

NextFeedback ==
    \/ \E email \in FeedbackEmails : Classify(email)
    \/ SaveClassification
    \/ \E email \in FeedbackEmails, correctCategory \in FeedbackCategories :
          LearnFromFeedback(email.ID, correctCategory)

SpecFeedback == InitFeedback /\ [][NextFeedback]_vars

\* LearnFromFeedback has returned nil
FeedbackSucceeded == ret.op = "LearnFromFeedback" /\ ret.kind = "ok"

\* C18: LearnFromFeedback(id, c) records the override: after the call the
\* persisted classification of id has category c, confidence 1.0, method
\* user and the tag user_corrected, in place of any earlier record, and the
\* rule set and the cache are as they were before the call
C18_FeedbackOverrides ==
    ret.op = "LearnFromFeedback" =>
        /\ FeedbackSucceeded
        /\ ret.id \in DOMAIN classifications
        /\ classifications[ret.id].Category = ret.category
        /\ classifications[ret.id].Confidence = 100
        /\ classifications[ret.id].Method = "user"
        /\ classifications[ret.id].Tags = <<"user_corrected">>
        /\ cache = ret.before.cache
        /\ cfg.ClassificationRules = ret.before.rules

\* feedback on a message that is in the cache and has a saved classification
\* of another category: the call returns an error and the earlier record stays
C18_Witness ==
    /\ ret.op = "LearnFromFeedback"
    /\ ret.kind = "error"
    /\ cache # <<>>
    /\ ret.id \in DOMAIN classifications
    /\ classifications[ret.id].Category # ret.category
    /\ classifications[ret.id].Method = "rules"

\* the age in hours of the message of the call that has returned
Age == ret.at - ret.email.ReceivedAt

\* the ages from which on the temporal factor is the lower one
TemporalSteps == <<[from |-> 1, factor |-> 10], [from |-> 6, factor |-> 5],
                   [from |-> 24, factor |-> 2], [from |-> 72, factor |-> 0]>>

\* the factor of the last step the age has reached, 15 before the first
TemporalFactor(age) ==
    LET reached == {i \in DOMAIN TemporalSteps : age >= TemporalSteps[i].from}
    IN IF reached = {} THEN 15
       ELSE TemporalSteps[CHOOSE i \in reached : \A j \in reached : j <= i].factor

\* C19: the temporal factor is 15 below 1 hour, 10 from 1 hour to below 6,
\* 5 from 6 to below 24, 2 from 24 hours to below 3 days and 0 from 3 days
\* on, an age on a threshold falling into the older bucket; an older message
\* never has a higher factor
C19_TemporalBuckets ==
    Scored =>
        /\ ret.value.Factors.temporal = TemporalFactor(Age)
        /\ \A email \in ScoreEmails :
              email.ReceivedAt <= ret.email.ReceivedAt =>
                  calculateTemporalScore(email, ret.at).score <= ret.value.Factors.temporal

\* a message exactly 24 hours old has the factor 2 of the older bucket
C19_Witness ==
    /\ Scored
    /\ Age = 24
    /\ ret.value.Factors.temporal = 2

(***************************************************************************)
(* Senders marked and unmarked as VIP between priority calculations        *)
(***************************************************************************)
VIPEmails == {e \in Emails : e.ID \in {"e1", "e3", "e5"}}

VIPSenders == {e.From : e \in VIPEmails}

\* no sender has the flag when the engine is built: a sender has it only
\* through UpdateVIPStatus
InitVIP ==
    /\ cfg \in Configs
    /\ facts = Facts(cfg, VIPEmails)
    /\ dbNil = FALSE
    /\ hasClassifier \in BOOLEAN
    /\ now = StartHour
    /\ cache = <<>>
    /\ classifications = <<>>
    /\ priorities = <<>>
    /\ running = <<>>
    /\ analytics \in {<<>>, [a \in VIPSenders |-> Row(1, 1, 1, 100, FALSE)]}
    /\ ret = Idle

NextVIP ==
    \/ \E senderEmail \in VIPSenders, isVIP \in BOOLEAN : UpdateVIPStatus(senderEmail, isVIP)
    \/ \E email \in VIPEmails : CalculatePriority(email)

SpecVIP == InitVIP /\ [][NextVIP]_vars

\* the last UpdateVIPStatus call for the sender was with true
MarkedVIP(senderEmail) == senderEmail \in DOMAIN analytics /\ analytics[senderEmail].IsVIP

Fingerprint == facts.of[ret.email].cacheKey

\* the message of the call is on an ignore list
Ignored == facts.of[ret.email].ignoreSender \/ facts.of[ret.email].ignoreSubject

StaleNeverReturned ==
    Classified =>
        /\ ret.at - ret.value.Timestamp < CacheTTL
        /\ ~ret.hit => ret.value.Timestamp = ret.at
        /\ ~ret.hit /\ ~Ignored => cache[Fingerprint] = ret.value

\* a step of Classify keeps every entry's key; ClearCache leaves the cache
\* empty, and the Classify after it recomputes
CacheStep ==
    /\ ret'.op = "Classify" => DOMAIN cache \subseteq DOMAIN cache'
    /\ ret'.op # "ClearCache" => Cardinality(DOMAIN cache') >= Cardinality(DOMAIN cache)
    /\ ret'.op = "ClearCache" => cache' = <<>>
    /\ ret.op = "ClearCache" /\ ret'.op = "Classify" =>
          ~ret'.hit /\ ret'.value.Timestamp = ret'.at

\* C22: Classify never returns a cache entry that is 24 hours old or older
\* but recomputes it and replaces the entry with the new result and
\* timestamp; Classify removes no entry, so the cache shrinks only through
\* ClearCache, which empties it, and the next Classify then recomputes
C22_StaleRecomputed == [](StaleNeverReturned) /\ [][CacheStep]_vars

\* a call exactly 24 hours after the one that filled the entry: the entry is
\* recomputed and carries the time of this call
C22_Witness ==
    /\ ReachedRules
    /\ ret.before # None
    /\ ret.at - ret.before.value.Timestamp = CacheTTL
    /\ cache[Fingerprint].Timestamp = ret.at

\* the configured priority of the category CalculatePriority recorded
ConfiguredPriority ==
    IF ret.value.Category \in DOMAIN cfg.CategoryPriority
    THEN cfg.CategoryPriority[ret.value.Category]
    ELSE 0

\* C23: the category factor is the configured priority of the message's
\* category clamped to 0..15: 15 for a value above 15, 0 for a negative value
\* and 0 for a category that is not in the mapping
C23_CategoryFactorClamped ==
    Scored =>
        /\ ret.value.Factors.category >= 0
        /\ ret.value.Factors.category =
              IF ConfiguredPriority > 15 THEN 15
              ELSE IF ConfiguredPriority < 0 THEN 0
              ELSE ConfiguredPriority

\* a message of a category with a negative configured priority has the factor 0
C23_Witness ==
    /\ Scored
    /\ ConfiguredPriority < 0
    /\ ret.value.Factors.category = 0

\* x brought into 0..100
Clamp100(x) == IF x > 100 THEN 100 ELSE IF x < 0 THEN 0 ELSE x

\* the score of the pipeline: the factor sum clamped, then decayed when decay
\* is enabled and the message is older than the max age, then clamped again
PipelineScore ==
    LET clamped == Clamp100(FactorSum(ret.value.Factors))
    IN Clamp100(IF DecayApplies
                THEN applyTimeDecay(cfg, clamped, ret.email.ReceivedAt, ret.at)[1]
                ELSE clamped)

\* C24: the score CalculatePriority returns (decay on the raw sum, then one
\* clamp) is the score of the pipeline that clamps the raw factor sum to
\* 0..100, then applies decay, then clamps to 0..100 again
C24_PipelineOrder == Scored => ret.value.Score = PipelineScore

\* a message old enough for decay whose score the decay has lowered
C24_Witness ==
    /\ Scored
    /\ DecayApplies
    /\ FactorSum(ret.value.Factors) > 0
    /\ ret.value.Score < FactorSum(ret.value.Factors)
    /\ ret.value.Score = PipelineScore

\* the call that has returned and the one before it, on the same message,
\* both computed their result: neither was answered from the cache
TwoUncached ==
    /\ Classified
    /\ ~ret.hit
    /\ ret.before # None
    /\ ret.before.value.Timestamp = ret.before.at

\* C25: for a fixed configuration and message, two uncached classifications
\* return the same category, confidence, tags and reasoning, also when
\* several matching rules share the highest confidence
C25_UncachedResultsAgree ==
    TwoUncached =>
        /\ ret.value.Category = ret.before.value.Category
        /\ ret.value.Confidence = ret.before.value.Confidence
        /\ ret.value.Tags = ret.before.value.Tags
        /\ ret.value.Reasoning = ret.before.value.Reasoning

\* two uncached classifications of a message that two rules of the same,
\* highest confidence match
C25_Witness ==
    /\ TwoUncached
    /\ ~Ignored
    /\ \E a, b \in Matched :
          /\ a # b
          /\ cfg.ClassificationRules[a].Confidence = ret.value.Confidence
          /\ cfg.ClassificationRules[b].Confidence = ret.value.Confidence

(***************************************************************************)
(* ShouldIgnoreSender on configurations with one ignore-sender pattern     *)
(***************************************************************************)
MaxPatternLen == 3

MaxAddressLen == 3

\* the bytes of the patterns: a, B and the wildcard
PatternBytes == {97, 66, 42}

\* the bytes of the addresses: a, b and A
AddressBytes == {97, 98, 65}

Patterns == UNION {[1..n -> PatternBytes] : n \in 0..MaxPatternLen}

Addresses == UNION {[1..n -> AddressBytes] : n \in 0..MaxAddressLen}

InitPattern ==
    /\ cfg \in {[CfgPlain EXCEPT !.IgnoreSenders = <<pattern>>] : pattern \in Patterns}
    /\ facts = Facts(cfg, {})
    /\ dbNil = FALSE
    /\ hasClassifier = TRUE
    /\ now = StartHour
    /\ cache = <<>>
    /\ classifications = <<>>
    /\ priorities = <<>>
    /\ running = <<>>
    /\ analytics = <<>>
    /\ ret = Idle

\* cfg.ShouldIgnoreSender(email)
ShouldIgnoreSenderCall(email) ==
    /\ ret' = [op |-> "ShouldIgnoreSender", kind |-> "ok", email |-> email,
               value |-> ShouldIgnoreSender(cfg, email)]
    /\ UNCHANGED <<cfg, facts, priorities, running, dbNil, hasClassifier, now, cache, classifications, analytics>>

NextPattern == \E email \in Addresses : ShouldIgnoreSenderCall(email)

SpecPattern == InitPattern /\ [][NextPattern]_vars

\* glob matching of the whole of s: '*' stands for any run of bytes, every
\* other byte for itself
RECURSIVE Glob(_, _)
Glob(s, pattern) ==
    IF pattern = <<>> THEN s = <<>>
    ELSE IF pattern[1] = 42
         THEN Glob(s, Tail(pattern)) \/ (s # <<>> /\ Glob(Tail(s), pattern))
         ELSE s # <<>> /\ s[1] = pattern[1] /\ Glob(Tail(s), Tail(pattern))

\* the one ignore-sender pattern of the configuration
ThePattern == cfg.IgnoreSenders[1]

\* C26: ignore-sender matching is glob matching of the whole address without
\* regard to case, for patterns without '*', the pattern '*', and patterns
\* with '*' at the start, at the end or in the interior
C26_IgnoreSenderIsGlob ==
    ret.op = "ShouldIgnoreSender" =>
        ret.value = Glob(toLower(ret.email), toLower(ThePattern))

\* a pattern with '*' in the interior only, and an address in another case
\* that it matches
C26_Witness ==
    /\ ret.op = "ShouldIgnoreSender"
    /\ ThePattern = <<97, 42, 66>>
    /\ ret.email = <<65, 97, 98>>
    /\ ret.value

\* the sender_analytics row stored for the sender of the scored message
StoredRow ==
    IF ret.email.From \in DOMAIN analytics THEN analytics[ret.email.From] ELSE None

Shown(result) ==
    [EmailID |-> result.EmailID, Category |-> result.Category,
     Confidence |-> result.Confidence, Tags |-> result.Tags,
     Reasoning |-> result.Reasoning]

\* what a Classifier with an empty cache can return for email at time t
Uncached(email, t) ==
    {Shown(ClassifyCall(cfg, <<>>, email, hdrOrder, ruleOrder, t).result) :
        hdrOrder \in Orders(DOMAIN email.Headers), ruleOrder \in RuleOrders}

\* C28: after any sequence of Classify calls the result returned for a
\* message equals, in identifier, category, confidence, tags and reasoning,
\* a result a Classifier with an empty cache returns for it; the returned
\* EmailID is the message's identifier
C28_CacheTransparent ==
    Classified =>
        /\ Shown(ret.value) \in Uncached(ret.email, ret.at)
        /\ ret.value.EmailID = ret.email.ID

\* a call answered from the cache with an entry that a message with another
\* identifier has filled
C28_Witness ==
    /\ Classified
    /\ ret.hit
    /\ ret.value.EmailID # ret.email.ID

(***************************************************************************)
(* Classification and priority calls on one store: an engine with its      *)
(* classifier, messages classified, saved, corrected and scored            *)
(***************************************************************************)
CategoryEmails == {e \in Emails : e.ID \in {"e4", "e5"}}

NextCategory ==
    \/ \E email \in CategoryEmails : Classify(email)
    \/ SaveClassification
    \/ \E email \in CategoryEmails, correctCategory \in FeedbackCategories :
          LearnFromFeedback(email.ID, correctCategory)
    \/ \E email \in CategoryEmails : CalculatePriority(email)
    \/ ClearCache

SpecCategory == InitClassifier /\ [][NextCategory]_vars

\* the categories Classify can return for email on the cache as it is, at time t
ClassifyCategories(email, t) ==
    {ClassifyCall(cfg, cache, email, hdrOrder, ruleOrder, t).result.Category :
        hdrOrder \in Orders(DOMAIN email.Headers), ruleOrder \in RuleOrders}

\* C29: the Category of the PriorityScore CalculatePriority returns for a
\* message is the category Classify returns for that message at that point,
\* after any sequence of Classify, SaveClassification, LearnFromFeedback and
\* CalculatePriority calls
C29_CategoriesAgree ==
    Scored => ClassifyCategories(ret.email, ret.at) = {ret.value.Category}

\* a priority calculated for a message whose classification was saved
\* before: the category is the saved one
C29_Witness ==
    /\ Scored
    /\ ret.saved # None
    /\ ret.value.Category = ret.saved.Category

(***************************************************************************)
(* Priorities calculated, saved and read back                              *)
(***************************************************************************)
NextRoundTrip ==
    \/ \E email \in ListedEmails : CalculatePriority(email)
    \/ SavePriority
    \/ \E email \in ListedEmails : GetPriorityBreakdown(email.ID)
    \/ Tick

SpecRoundTrip == InitRecalculate /\ [][NextRoundTrip]_vars

\* GetPriorityBreakdown has returned for the message saved just before
Reloaded == ret.op = "GetPriorityBreakdown" /\ ret.saved # None

\* C30: SavePriority(p) followed by GetPriorityBreakdown(p.EmailID) returns a
\* PriorityScore with the score, the factor map and the reasoning chain of
\* p, so that it has score = clamped sum of its factors when p has
C30_PriorityRoundTrip ==
    Reloaded =>
        /\ ret.kind = "ok"
        /\ ret.value.Score = ret.saved.Score
        /\ ret.value.ReasoningChain = ret.saved.ReasoningChain
        /\ ret.value.Factors = ret.saved.Factors
        /\ ret.saved.Score = Clamp100(FactorSum(ret.saved.Factors)) =>
              ret.value.Score = Clamp100(FactorSum(ret.value.Factors))

\* a saved priority read back with its score and its reasoning chain
C30_Witness ==
    /\ Reloaded
    /\ ret.kind = "ok"
    /\ ret.value.Score = ret.saved.Score
    /\ ret.value.Score > 0
    /\ ret.value.ReasoningChain = ret.saved.ReasoningChain

====
